---- MODULE Spec2Model ----
(***************************************************************************)
(* Verification model of the translation manager's core:                   *)
(*   - the content parsers (Editor.js, GrapeJS, generic JSON, Markdown,    *)
(*     HTML) and the parser registry,                                      *)
(*   - the batched fragment translation of EnhancedTranslationService,     *)
(*   - the DeepL service's translation memory and retry loop.              *)
(*                                                                         *)
(* Strings are sequences of one-character strings, so that template        *)
(* literals are concatenations and regular expressions are scans.          *)
(* JSON values are tagged records; JSON.parse / JSON.stringify are the     *)
(* passage between a content string and its value ("json" contents), and   *)
(* a content that JSON.parse rejects is a "text" content.                  *)
(***************************************************************************)
EXTENDS Integers, Sequences, FiniteSets, TLC

(***************************************************************************)
(* Strings                                                                 *)
(***************************************************************************)

\* The value of an absent optional string (translatedText?: string).
Undefined == <<"undefined">>

\* JavaScript truthiness of an optional string.
TruthyText(t) == t # Undefined /\ t # <<>>

\* \s of the regular expressions, on the alphabet of the model.
IsWs(c) == c \in {" ", "\t", "\n"}

UpperCase == <<"A","B","C","D","E","F","G","H","I","J","K","L","M",
               "N","O","P","Q","R","S","T","U","V","W","X","Y","Z">>
LowerCase == <<"a","b","c","d","e","f","g","h","i","j","k","l","m",
               "n","o","p","q","r","s","t","u","v","w","x","y","z">>
Digits == <<"0","1","2","3","4","5","6","7","8","9">>

IsIn(c, chars) == \E i \in 1..Len(chars) : chars[i] = c

LowerChar(c) ==
  IF IsIn(c, UpperCase)
  THEN LowerCase[CHOOSE i \in 1..Len(UpperCase) : UpperCase[i] = c]
  ELSE c

\* String.prototype.toLowerCase
ToLowerCase(s) == [i \in 1..Len(s) |-> LowerChar(s[i])]

RECURSIVE TrimStart(_)
TrimStart(s) ==
  IF s # <<>> /\ IsWs(Head(s)) THEN TrimStart(Tail(s)) ELSE s

RECURSIVE TrimEnd(_)
TrimEnd(s) ==
  IF s # <<>> /\ IsWs(s[Len(s)]) THEN TrimEnd(SubSeq(s, 1, Len(s) - 1)) ELSE s

\* String.prototype.trim
Trim(s) == TrimEnd(TrimStart(s))

\* Number.prototype.toString of a non-negative integer, in a template literal.
RECURSIVE Dec(_)
Dec(n) == IF n < 10 THEN <<Digits[n + 1]>> ELSE Dec(n \div 10) \o <<Digits[(n % 10) + 1]>>

\* s.startsWith(p)
StartsWith(s, p) == Len(s) >= Len(p) /\ SubSeq(s, 1, Len(p)) = p

\* The position of the first c in s at or after position i, 0 when there is none.
IndexFrom(s, c, i) ==
  LET found == {j \in i..Len(s) : s[j] = c}
  IN IF found = {} THEN 0 ELSE CHOOSE j \in found : \A m \in found : j <= m

\* text.replace(/<[^>]*>/g, ''): every '<' that is followed by a '>' is removed
\* together with everything up to the first such '>'.
RECURSIVE RemoveTags(_)
RemoveTags(s) ==
  IF s = <<>> THEN <<>>
  ELSE IF Head(s) = "<" /\ IndexFrom(s, ">", 2) # 0
       THEN RemoveTags(SubSeq(s, IndexFrom(s, ">", 2) + 1, Len(s)))
       ELSE <<Head(s)>> \o RemoveTags(Tail(s))

stripHtml(text) == Trim(RemoveTags(text))

\* /^https?:\/\//i
sHttp == <<"h","t","t","p",":","/","/">>
sHttps == <<"h","t","t","p","s",":","/","/">>
urlPattern(value) ==
  StartsWith(ToLowerCase(value), sHttp) \/ StartsWith(ToLowerCase(value), sHttps)

(***************************************************************************)
(* JSON values                                                             *)
(***************************************************************************)

JStr(s) == [k |-> "str", s |-> s]
JNum(n) == [k |-> "num", n |-> n]
JNull == [k |-> "null"]
JUndef == [k |-> "undef"]
JArr(items) == [k |-> "arr", items |-> items]
JObj(keys, vals) == [k |-> "obj", keys |-> keys, vals |-> vals]

IsStr(v) == v.k = "str"
IsArr(v) == v.k = "arr"
IsObj(v) == v.k = "obj"
\* null and undefined: reading a property of them throws a TypeError.
IsNullish(v) == v.k \in {"null", "undef"}

\* JavaScript truthiness of a value.
Truthy(v) ==
  CASE v.k = "str" -> v.s # <<>>
    [] v.k = "num" -> v.n # 0
    [] v.k \in {"null", "undef"} -> FALSE
    [] OTHER -> TRUE

HasKey(o, key) == IsObj(o) /\ \E i \in 1..Len(o.keys) : o.keys[i] = key

KeyIndex(o, key) == CHOOSE i \in 1..Len(o.keys) : o.keys[i] = key

\* v[key] for a value that is not null or undefined (own string-keyed
\* properties of objects; the other values of the model have none).
Prop(v, key) == IF HasKey(v, key) THEN v.vals[KeyIndex(v, key)] ELSE JUndef

\* o[key] = val on an object: in place when the key exists, appended otherwise.
SetProp(o, key, val) ==
  IF HasKey(o, key)
  THEN [o EXCEPT !.vals[KeyIndex(o, key)] = val]
  ELSE [o EXCEPT !.keys = Append(@, key), !.vals = Append(@, val)]

\* Object.keys of an object, an array (its indices), a string (its indices)
\* or another primitive (none).
ObjectKeys(v) ==
  IF IsObj(v) THEN v.keys
  ELSE IF IsArr(v) THEN [i \in 1..Len(v.items) |-> Dec(i - 1)]
  ELSE IF IsStr(v) THEN [i \in 1..Len(v.s) |-> Dec(i - 1)]
  ELSE <<>>

\* v[key] for the i-th key that Object.keys(v) returned.
OwnValue(v, i) ==
  IF IsObj(v) THEN v.vals[i]
  ELSE IF IsArr(v) THEN v.items[i]
  ELSE JStr(<<v.s[i]>>)

(***************************************************************************)
(* Contents: a content string is either the serialization of a JSON value  *)
(* or a text JSON.parse rejects.                                           *)
(***************************************************************************)

JsonContent(v) == [json |-> TRUE, value |-> v, text |-> <<>>]
TextContent(s) == [json |-> FALSE, value |-> JNull, text |-> s]

(***************************************************************************)
(* Fragments (ExtractedText) and the accumulator of one extraction pass:   *)
(* out is the list pushed so far, thrown says that an exception left the   *)
(* walk (the parsers catch it and return what was pushed).                 *)
(***************************************************************************)

Fragment(path, text, context, type) ==
  [id |-> path, originalText |-> text, translatedText |-> Undefined,
   path |-> path, context |-> context, type |-> type]

NoThrow(x) == [out |-> x, thrown |-> FALSE]
Throw(acc) == [acc EXCEPT !.thrown = TRUE]
Push(acc, f) == [acc EXCEPT !.out = Append(@, f)]

\* new Map(translations.map(t => [t.path, t.translatedText || t.originalText])):
\* a later entry with the same key replaces an earlier one.
MapValue(t) == IF TruthyText(t.translatedText) THEN t.translatedText ELSE t.originalText

MapHas(translations, path) ==
  \E i \in 1..Len(translations) : translations[i].path = path

MapGet(translations, path) ==
  LET last == CHOOSE i \in 1..Len(translations) :
                /\ translations[i].path = path
                /\ \A j \in (i + 1)..Len(translations) : translations[j].path # path
  IN MapValue(translations[last])

(***************************************************************************)
(* String literals of the parsers                                          *)
(***************************************************************************)

s_type == <<"t","y","p","e">>
s_data == <<"d","a","t","a">>
s_text == <<"t","e","x","t">>
s_items == <<"i","t","e","m","s">>
s_caption == <<"c","a","p","t","i","o","n">>
s_content == <<"c","o","n","t","e","n","t">>
s_title == <<"t","i","t","l","e">>
s_message == <<"m","e","s","s","a","g","e">>
s_style == <<"s","t","y","l","e">>
s_blocks == <<"b","l","o","c","k","s">>
s_paragraph == <<"p","a","r","a","g","r","a","p","h">>
s_header == <<"h","e","a","d","e","r">>
s_list == <<"l","i","s","t">>
s_quote == <<"q","u","o","t","e">>
s_image == <<"i","m","a","g","e">>
s_embed == <<"e","m","b","e","d">>
s_table == <<"t","a","b","l","e">>
s_checklist == <<"c","h","e","c","k","l","i","s","t">>
s_warning == <<"w","a","r","n","i","n","g">>
s_alert == <<"a","l","e","r","t">>
s_undefined == <<"u","n","d","e","f","i","n","e","d">>
s_null == <<"n","u","l","l">>
s_object == <<"[","o","b","j","e","c","t"," ","O","b","j","e","c","t","]">>
s_unordered == <<"u","n","o","r","d","e","r","e","d">>
s_url == <<"u","r","l">>
s_id == <<"i","d">>
s_file == <<"f","i","l","e">>
s_src == <<"s","r","c">>
s_href == <<"h","r","e","f">>
s_link == <<"l","i","n","k">>

\* `${value}` of a template literal.
TemplateText(v) ==
  CASE v.k = "str" -> v.s
    [] v.k = "undef" -> s_undefined
    [] v.k = "null" -> s_null
    [] v.k = "num" /\ v.n >= 0 -> Dec(v.n)
    [] v.k = "obj" -> s_object

(***************************************************************************)
(* EditorJSParser                                                          *)
(***************************************************************************)

\* validate: parsed && Array.isArray(parsed.blocks); a throw gives false.
EditorJSValidate(content) ==
  /\ content.json
  /\ Truthy(content.value)
  /\ IsArr(Prop(content.value, s_blocks))

\* `blocks[${blockIndex}]`
BlockPath(blockIndex) == s_blocks \o <<"[">> \o Dec(blockIndex) \o <<"]">>

\* if (block.data.<key>) push({ originalText: [stripHtml](block.data.<key>) })
EditorJSExtractField(acc, data, key, path, context, strip) ==
  IF acc.thrown THEN acc
  ELSE IF IsNullish(data) THEN Throw(acc)
  ELSE LET v == Prop(data, key) IN
       IF ~Truthy(v) THEN acc
       ELSE IF strip /\ ~IsStr(v) THEN Throw(acc)
       ELSE Push(acc, Fragment(path, IF strip THEN stripHtml(v.s) ELSE v.s,
                               context, "text"))

\* block.data.items.forEach of a 'list' block
RECURSIVE EditorJSExtractListItems(_, _, _, _, _)
EditorJSExtractListItems(acc, items, i, blockPath, context) ==
  IF acc.thrown \/ i > Len(items) THEN acc
  ELSE LET path == blockPath \o <<".">> \o s_data \o <<".">> \o s_items
                     \o <<"[">> \o Dec(i - 1) \o <<"]">>
           next == IF ~IsStr(items[i]) THEN Throw(acc)
                   ELSE Push(acc, Fragment(path, stripHtml(items[i].s), context, "text"))
       IN EditorJSExtractListItems(next, items, i + 1, blockPath, context)

\* row.forEach of a 'table' block
RECURSIVE EditorJSExtractCells(_, _, _, _, _)
EditorJSExtractCells(acc, row, r, c, blockPath) ==
  IF acc.thrown \/ c > Len(row) THEN acc
  ELSE LET path == blockPath \o <<".">> \o s_data \o <<".">> \o s_content
                     \o <<"[">> \o Dec(r - 1) \o <<"]">> \o <<"[">> \o Dec(c - 1) \o <<"]">>
           context == s_table \o <<" ","c","e","l","l"," ","(">> \o Dec(r)
                        \o <<","," ">> \o Dec(c) \o <<")">>
           next == IF ~IsStr(row[c]) THEN Throw(acc)
                   ELSE IF Trim(row[c].s) # <<>>
                        THEN Push(acc, Fragment(path, stripHtml(row[c].s), context, "text"))
                        ELSE acc
       IN EditorJSExtractCells(next, row, r, c + 1, blockPath)

\* block.data.content.forEach of a 'table' block
RECURSIVE EditorJSExtractRows(_, _, _, _)
EditorJSExtractRows(acc, rows, r, blockPath) ==
  IF acc.thrown \/ r > Len(rows) THEN acc
  ELSE LET next == IF ~IsArr(rows[r]) THEN Throw(acc)
                   ELSE EditorJSExtractCells(acc, rows[r].items, r, 1, blockPath)
       IN EditorJSExtractRows(next, rows, r + 1, blockPath)

\* block.data.items.forEach of a 'checklist' block
RECURSIVE EditorJSExtractChecklist(_, _, _, _)
EditorJSExtractChecklist(acc, items, i, blockPath) ==
  IF acc.thrown \/ i > Len(items) THEN acc
  ELSE LET path == blockPath \o <<".">> \o s_data \o <<".">> \o s_items
                     \o <<"[">> \o Dec(i - 1) \o <<"]">> \o <<".">> \o s_text
           context == s_checklist \o <<" ","i","t","e","m">>
           next == EditorJSExtractField(acc, items[i], s_text, path, context, TRUE)
       IN EditorJSExtractChecklist(next, items, i + 1, blockPath)

\* isTextualContent(key, value) of the Editor.js parser
EditorJSIsTextualContent(key, value) ==
  /\ ToLowerCase(key) \notin {s_url, s_id, s_file, s_src, s_href, s_link, s_embed}
  /\ ~urlPattern(value)
  /\ Len(value) > 2

\* value.forEach of an array-valued key of a custom block
RECURSIVE EditorJSExtractGenericItems(_, _, _, _, _)
EditorJSExtractGenericItems(acc, items, i, currentPath, context) ==
  IF i > Len(items) THEN acc
  ELSE LET path == currentPath \o <<"[">> \o Dec(i - 1) \o <<"]">>
           next == IF IsStr(items[i]) /\ Trim(items[i].s) # <<>>
                   THEN Push(acc, Fragment(path, stripHtml(items[i].s), context, "text"))
                   ELSE acc
       IN EditorJSExtractGenericItems(next, items, i + 1, currentPath, context)

\* Object.keys(data).forEach of extractGenericTextFields
RECURSIVE EditorJSExtractGenericKeys(_, _, _, _, _)
EditorJSExtractGenericKeys(acc, data, i, basePath, blockType) ==
  IF i > Len(ObjectKeys(data)) THEN acc
  ELSE LET key == ObjectKeys(data)[i]
           value == OwnValue(data, i)
           currentPath == basePath \o <<".">> \o s_data \o <<".">> \o key
           next ==
             IF IsStr(value) /\ Trim(value.s) # <<>> /\ EditorJSIsTextualContent(key, value.s)
             THEN Push(acc, Fragment(currentPath, stripHtml(value.s),
                                     TemplateText(blockType) \o <<" ">> \o key, "text"))
             ELSE IF IsArr(value)
                  THEN EditorJSExtractGenericItems(acc, value.items, 1, currentPath,
                         TemplateText(blockType) \o <<" ">> \o key \o <<" ","i","t","e","m">>)
                  ELSE acc
       IN EditorJSExtractGenericKeys(next, data, i + 1, basePath, blockType)

extractGenericTextFields(acc, data, basePath, blockType) ==
  IF ~Truthy(data) \/ ~(IsObj(data) \/ IsArr(data)) THEN acc
  ELSE EditorJSExtractGenericKeys(acc, data, 1, basePath, blockType)

\* The path of a field of block.data.
DataPath(blockPath, key) == blockPath \o <<".">> \o s_data \o <<".">> \o key

extractFromBlock(acc, block, blockIndex) ==
  IF acc.thrown THEN acc
  ELSE IF IsNullish(block) THEN Throw(acc)
  ELSE
  LET blockPath == BlockPath(blockIndex)
      type == Prop(block, s_type)
      data == Prop(block, s_data)
      typeIs(t) == type = JStr(t)
  IN
  CASE typeIs(s_paragraph) \/ typeIs(s_header) ->
         EditorJSExtractField(acc, data, s_text, DataPath(blockPath, s_text),
                              type.s \o <<" ","b","l","o","c","k">>, TRUE)
    [] typeIs(s_list) ->
         IF IsNullish(data) THEN Throw(acc)
         ELSE IF ~Truthy(Prop(data, s_items)) THEN acc
         ELSE IF ~IsArr(Prop(data, s_items)) THEN Throw(acc)
         ELSE EditorJSExtractListItems(acc, Prop(data, s_items).items, 1, blockPath,
                (IF Truthy(Prop(data, s_style)) THEN TemplateText(Prop(data, s_style))
                 ELSE s_unordered) \o <<" ","l","i","s","t"," ","i","t","e","m">>)
    [] typeIs(s_quote) ->
         EditorJSExtractField(
           EditorJSExtractField(acc, data, s_text, DataPath(blockPath, s_text),
                                s_quote \o <<" ">> \o s_text, TRUE),
           data, s_caption, DataPath(blockPath, s_caption),
           s_quote \o <<" ">> \o s_caption, TRUE)
    [] typeIs(s_image) \/ typeIs(s_embed) ->
         EditorJSExtractField(acc, data, s_caption, DataPath(blockPath, s_caption),
                              type.s \o <<" ">> \o s_caption, FALSE)
    [] typeIs(s_table) ->
         IF IsNullish(data) THEN Throw(acc)
         ELSE IF ~Truthy(Prop(data, s_content)) THEN acc
         ELSE IF ~IsArr(Prop(data, s_content)) THEN Throw(acc)
         ELSE EditorJSExtractRows(acc, Prop(data, s_content).items, 1, blockPath)
    [] typeIs(s_checklist) ->
         IF IsNullish(data) THEN Throw(acc)
         ELSE IF ~Truthy(Prop(data, s_items)) THEN acc
         ELSE IF ~IsArr(Prop(data, s_items)) THEN Throw(acc)
         ELSE EditorJSExtractChecklist(acc, Prop(data, s_items).items, 1, blockPath)
    [] typeIs(s_warning) \/ typeIs(s_alert) ->
         EditorJSExtractField(
           EditorJSExtractField(acc, data, s_title, DataPath(blockPath, s_title),
                                type.s \o <<" ">> \o s_title, FALSE),
           data, s_message, DataPath(blockPath, s_message),
           type.s \o <<" ">> \o s_message, FALSE)
    [] OTHER -> extractGenericTextFields(acc, data, blockPath, type)

\* editorData.blocks.forEach of parse
RECURSIVE EditorJSExtractBlocks(_, _, _)
EditorJSExtractBlocks(acc, blocks, i) ==
  IF acc.thrown \/ i > Len(blocks) THEN acc
  ELSE EditorJSExtractBlocks(extractFromBlock(acc, blocks[i], i - 1), blocks, i + 1)

\* parse: what was pushed before an exception is returned.
EditorJSParse(content) ==
  IF ~content.json THEN <<>>
  ELSE IF IsNullish(content.value) THEN <<>>
  ELSE IF ~IsArr(Prop(content.value, s_blocks)) THEN <<>>
  ELSE EditorJSExtractBlocks(NoThrow(<<>>), Prop(content.value, s_blocks).items, 1).out

(***************************************************************************)
(* EditorJSParser.reconstruct: the walk mutates the parsed document; here  *)
(* each step returns the new value (out) or reports the exception.         *)
(***************************************************************************)

\* data[key] = value, in a strict-mode class body: a TypeError on null,
\* undefined and primitives; a named property of an array is not serialized.
AssignProp(acc, key, value) ==
  IF acc.thrown THEN acc
  ELSE IF IsObj(acc.out) THEN NoThrow(SetProp(acc.out, key, value))
  ELSE IF IsArr(acc.out) THEN acc
  ELSE Throw(acc)

\* updateTextPath(data, key, path, translationMap); acc.out is data.
updateTextPath(acc, key, path, translations) ==
  IF acc.thrown THEN acc
  ELSE IF MapHas(translations, path)
       THEN AssignProp(acc, key, JStr(MapGet(translations, path)))
       ELSE acc

\* translationMap.get(path) || item
GetOr(translations, path, item) ==
  IF MapHas(translations, path) /\ MapGet(translations, path) # <<>>
  THEN JStr(MapGet(translations, path))
  ELSE item

\* translationMap.has(path) ? translationMap.get(path) : item
GetIfHas(translations, path, item) ==
  IF MapHas(translations, path) THEN JStr(MapGet(translations, path)) ELSE item

\* block.data.items.map of a 'list' block
EditorJSReconstructListItems(items, blockPath, translations) ==
  [i \in 1..Len(items) |->
     GetOr(translations,
           DataPath(blockPath, s_items) \o <<"[">> \o Dec(i - 1) \o <<"]">>,
           items[i])]

\* block.data.content.map(row => row.map(...)) of a 'table' block
EditorJSReconstructRows(acc, blockPath, translations) ==
  LET rows == acc.out IN
  IF \E r \in 1..Len(rows) : ~IsArr(rows[r]) THEN Throw(acc)
  ELSE NoThrow([r \in 1..Len(rows) |->
         JArr([c \in 1..Len(rows[r].items) |->
           GetOr(translations,
                 DataPath(blockPath, s_content) \o <<"[">> \o Dec(r - 1) \o <<"]">>
                   \o <<"[">> \o Dec(c - 1) \o <<"]">>,
                 rows[r].items[c])])])

\* block.data.items.forEach of a 'checklist' block
RECURSIVE EditorJSReconstructChecklist(_, _, _, _)
EditorJSReconstructChecklist(acc, i, blockPath, translations) ==
  IF acc.thrown \/ i > Len(acc.out) THEN acc
  ELSE LET path == DataPath(blockPath, s_items) \o <<"[">> \o Dec(i - 1) \o <<"]">>
                     \o <<".">> \o s_text
           item == updateTextPath(NoThrow(acc.out[i]), s_text, path, translations)
       IN EditorJSReconstructChecklist(
            IF item.thrown THEN Throw(acc)
            ELSE NoThrow([acc.out EXCEPT ![i] = item.out]),
            i + 1, blockPath, translations)

\* Object.keys(data).forEach of reconstructGenericTextFields; acc.out is data.
RECURSIVE EditorJSReconstructGenericKeys(_, _, _, _)
EditorJSReconstructGenericKeys(data, i, basePath, translations) ==
  IF i > Len(ObjectKeys(data)) THEN data
  ELSE LET key == ObjectKeys(data)[i]
           value == OwnValue(data, i)
           currentPath == basePath \o <<".">> \o s_data \o <<".">> \o key
           newValue ==
             IF IsStr(value) /\ MapHas(translations, currentPath)
             THEN JStr(MapGet(translations, currentPath))
             ELSE IF IsArr(value)
                  THEN JArr([j \in 1..Len(value.items) |->
                         GetIfHas(translations,
                                  currentPath \o <<"[">> \o Dec(j - 1) \o <<"]">>,
                                  value.items[j])])
                  ELSE value
           next == IF IsObj(data) THEN [data EXCEPT !.vals[i] = newValue]
                   ELSE [data EXCEPT !.items[i] = newValue]
       IN EditorJSReconstructGenericKeys(next, i + 1, basePath, translations)

reconstructGenericTextFields(data, basePath, translations) ==
  IF ~Truthy(data) \/ ~(IsObj(data) \/ IsArr(data)) THEN data
  ELSE EditorJSReconstructGenericKeys(data, 1, basePath, translations)

\* The block with block.data replaced by the rebuilt data (data is mutated in
\* place, so a block without data stays without it).
WithData(block, acc) ==
  IF acc.thrown THEN Throw(NoThrow(block))
  ELSE IF HasKey(block, s_data) THEN NoThrow(SetProp(block, s_data, acc.out))
  ELSE NoThrow(block)

\* block.data.<key> = block.data.<key>.map(...) for 'list' and 'table',
\* block.data.items.forEach for 'checklist'.
EditorJSReconstructArrayField(block, key, blockPath, translations) ==
  LET data == Prop(block, s_data)
      field == Prop(data, key)
      type == Prop(block, s_type)
  IN
  IF IsNullish(data) THEN Throw(NoThrow(block))
  ELSE IF ~Truthy(field) THEN NoThrow(block)
  ELSE IF ~IsArr(field) THEN Throw(NoThrow(block))
  ELSE LET items ==
             IF type = JStr(s_list)
             THEN NoThrow(EditorJSReconstructListItems(field.items, blockPath, translations))
             ELSE IF type = JStr(s_table)
             THEN EditorJSReconstructRows(NoThrow(field.items), blockPath, translations)
             ELSE EditorJSReconstructChecklist(NoThrow(field.items), 1, blockPath, translations)
       IN IF items.thrown THEN Throw(NoThrow(block))
          ELSE WithData(block, NoThrow(SetProp(data, key, JArr(items.out))))

reconstructBlock(block, blockIndex, translations) ==
  IF IsNullish(block) THEN Throw(NoThrow(block))
  ELSE
  LET blockPath == BlockPath(blockIndex)
      type == Prop(block, s_type)
      data == Prop(block, s_data)
      typeIs(t) == type = JStr(t)
  IN
  CASE typeIs(s_paragraph) \/ typeIs(s_header) ->
         WithData(block, updateTextPath(NoThrow(data), s_text,
                                        DataPath(blockPath, s_text), translations))
    [] typeIs(s_list) ->
         EditorJSReconstructArrayField(block, s_items, blockPath, translations)
    [] typeIs(s_quote) ->
         WithData(block,
           updateTextPath(
             updateTextPath(NoThrow(data), s_text, DataPath(blockPath, s_text), translations),
             s_caption, DataPath(blockPath, s_caption), translations))
    [] typeIs(s_image) \/ typeIs(s_embed) ->
         WithData(block, updateTextPath(NoThrow(data), s_caption,
                                        DataPath(blockPath, s_caption), translations))
    [] typeIs(s_table) ->
         EditorJSReconstructArrayField(block, s_content, blockPath, translations)
    [] typeIs(s_checklist) ->
         EditorJSReconstructArrayField(block, s_items, blockPath, translations)
    [] typeIs(s_warning) \/ typeIs(s_alert) ->
         WithData(block,
           updateTextPath(
             updateTextPath(NoThrow(data), s_title, DataPath(blockPath, s_title), translations),
             s_message, DataPath(blockPath, s_message), translations))
    [] OTHER ->
         WithData(block, NoThrow(reconstructGenericTextFields(data, blockPath, translations)))

\* editorData.blocks.forEach of reconstruct; acc.out is the list of blocks.
RECURSIVE EditorJSReconstructBlocks(_, _, _)
EditorJSReconstructBlocks(acc, i, translations) ==
  IF acc.thrown \/ i > Len(acc.out) THEN acc
  ELSE LET b == reconstructBlock(acc.out[i], i - 1, translations)
       IN EditorJSReconstructBlocks(
            IF b.thrown THEN Throw(acc) ELSE NoThrow([acc.out EXCEPT ![i] = b.out]),
            i + 1, translations)

\* reconstruct: JSON.stringify of the mutated document, or the original content
\* when anything inside the try block threw.
EditorJSReconstruct(originalContent, translations) ==
  IF ~originalContent.json THEN originalContent
  ELSE IF IsNullish(originalContent.value) THEN originalContent
  ELSE IF ~IsArr(Prop(originalContent.value, s_blocks)) THEN originalContent
  ELSE LET blocks == EditorJSReconstructBlocks(
                       NoThrow(Prop(originalContent.value, s_blocks).items), 1, translations)
       IN IF blocks.thrown THEN originalContent
          ELSE JsonContent(SetProp(originalContent.value, s_blocks, JArr(blocks.out)))

(***************************************************************************)
(* GrapeJSParser                                                           *)
(***************************************************************************)

s_components == <<"c","o","m","p","o","n","e","n","t","s">>
s_component == <<"c","o","m","p","o","n","e","n","t">>
s_element == <<"e","l","e","m","e","n","t">>
s_attributes == <<"a","t","t","r","i","b","u","t","e","s">>
s_traits == <<"t","r","a","i","t","s">>
s_value == <<"v","a","l","u","e">>
s_name == <<"n","a","m","e">>
s_tagName == <<"t","a","g","N","a","m","e">>
s_class == <<"c","l","a","s","s">>
s_width == <<"w","i","d","t","h">>
s_height == <<"h","e","i","g","h","t">>
s_alt == <<"a","l","t">>
s_placeholder == <<"p","l","a","c","e","h","o","l","d","e","r">>
s_ariaLabel == <<"a","r","i","a","-","l","a","b","e","l">>
s_dataText == <<"d","a","t","a","-","t","e","x","t">>

\* validate: parsed && (Array.isArray(parsed) ||
\*                      (parsed.components && Array.isArray(parsed.components)))
GrapeJSValidate(content) ==
  /\ content.json
  /\ Truthy(content.value)
  /\ \/ IsArr(content.value)
     \/ IsArr(Prop(content.value, s_components))

\* getComponentContext
getComponentContext(component) ==
  IF Truthy(Prop(component, s_type))
  THEN TemplateText(Prop(component, s_type)) \o <<" ">> \o s_component
  ELSE IF Truthy(Prop(component, s_tagName))
  THEN TemplateText(Prop(component, s_tagName)) \o <<" ">> \o s_element
  ELSE s_component

\* getAttributeType (the same switch in GrapeJSParser and HtmlParser)
getAttributeType(attributeName) ==
  LET n == ToLowerCase(attributeName) IN
  CASE n = s_alt -> "alt"
    [] n = s_title -> "title"
    [] n = s_placeholder -> "placeholder"
    [] n = s_ariaLabel \/ n = s_dataText -> "meta"
    [] OTHER -> "text"

IsDigit(c) == IsIn(c, Digits)
IsHexDigit(c) == IsDigit(c) \/ LowerChar(c) \in {"a","b","c","d","e","f"}

\* /^#[0-9a-f]{3,6}$/i
colorPattern(value) ==
  /\ Len(value) \in 4..7
  /\ value[1] = "#"
  /\ \A i \in 2..Len(value) : IsHexDigit(value[i])

\* The length of the run of digits of s that starts at position i.
RECURSIVE DigitRun(_, _)
DigitRun(s, i) == IF i <= Len(s) /\ IsDigit(s[i]) THEN 1 + DigitRun(s, i + 1) ELSE 0

\* /^\d+(\.\d+)?(px|em|rem|%)?$/i
numberPattern(value) ==
  LET a == DigitRun(value, 1)
      hasFraction == /\ a + 1 <= Len(value)
                     /\ value[a + 1] = "."
                     /\ DigitRun(value, a + 2) > 0
      b == a + 1 + DigitRun(value, a + 2)
      unitAt(p) == ToLowerCase(SubSeq(value, p + 1, Len(value)))
                     \in {<<>>, <<"p","x">>, <<"e","m">>, <<"r","e","m">>, <<"%">>}
  IN /\ a > 0
     /\ \/ unitAt(a)
        \/ hasFraction /\ unitAt(b)

\* isTextualContent(key, value) of the GrapeJS parser
GrapeJSIsTextualContent(key, value) ==
  /\ ToLowerCase(key) \notin {s_id, s_class, s_src, s_href, s_url, s_link,
                              s_style, s_width, s_height}
  /\ ~urlPattern(value)
  /\ ~colorPattern(value)
  /\ ~numberPattern(value)
  /\ Len(value) > 1

\* Object.keys(attributes).forEach of extractFromAttributes
RECURSIVE GrapeJSExtractAttributeKeys(_, _, _, _, _)
GrapeJSExtractAttributeKeys(acc, attributes, i, basePath, component) ==
  IF i > Len(ObjectKeys(attributes)) THEN acc
  ELSE LET key == ObjectKeys(attributes)[i]
           value == OwnValue(attributes, i)
           next ==
             IF /\ IsStr(value)
                /\ Trim(value.s) # <<>>
                /\ \/ key \in {s_alt, s_title, s_placeholder, s_ariaLabel, s_dataText, s_value}
                   \/ GrapeJSIsTextualContent(key, value.s)
             THEN Push(acc, Fragment(basePath \o <<".">> \o key, value.s,
                                     getComponentContext(component) \o <<" ">> \o key,
                                     getAttributeType(key)))
             ELSE acc
       IN GrapeJSExtractAttributeKeys(next, attributes, i + 1, basePath, component)

\* component.traits.forEach of extractFromComponent
RECURSIVE GrapeJSExtractTraits(_, _, _, _, _)
GrapeJSExtractTraits(acc, traits, i, path, component) ==
  IF acc.thrown \/ i > Len(traits) THEN acc
  ELSE LET trait == traits[i]
           value == Prop(trait, s_value)
           name == Prop(trait, s_name)
           traitPath == path \o <<".">> \o s_traits \o <<"[">> \o Dec(i - 1) \o <<"]">>
                          \o <<".">> \o s_value
           next ==
             IF IsNullish(trait) THEN Throw(acc)
             ELSE IF ~(Truthy(value) /\ IsStr(value)) THEN acc
             ELSE IF ~IsStr(name) THEN Throw(acc)
             ELSE IF GrapeJSIsTextualContent(name.s, value.s)
                  THEN Push(acc, Fragment(traitPath, value.s,
                                          getComponentContext(component) \o <<" ">> \o name.s,
                                          getAttributeType(name.s)))
                  ELSE acc
       IN GrapeJSExtractTraits(next, traits, i + 1, path, component)

\* The content step of extractFromComponent.
GrapeJSExtractContent(acc, component, path) ==
  LET content == Prop(component, s_content) IN
  IF Truthy(content) /\ IsStr(content) /\ Trim(stripHtml(content.s)) # <<>>
  THEN Push(acc, Fragment(path \o <<".">> \o s_content, stripHtml(content.s),
                          getComponentContext(component), "text"))
  ELSE acc

RECURSIVE extractFromComponent(_, _, _)
RECURSIVE GrapeJSExtractChildren(_, _, _, _)

\* components.forEach, with `${prefix}[${index}]` as the child's path
GrapeJSExtractChildren(acc, components, i, prefix) ==
  IF acc.thrown \/ i > Len(components) THEN acc
  ELSE GrapeJSExtractChildren(
         extractFromComponent(acc, components[i], prefix \o <<"[">> \o Dec(i - 1) \o <<"]">>),
         components, i + 1, prefix)

extractFromComponent(acc, component, path) ==
  IF acc.thrown THEN acc
  ELSE IF IsNullish(component) THEN Throw(acc)
  ELSE
  LET attributes == Prop(component, s_attributes)
      traits == Prop(component, s_traits)
      children == Prop(component, s_components)
      a1 == GrapeJSExtractContent(acc, component, path)
      a2 == IF Truthy(attributes)
            THEN GrapeJSExtractAttributeKeys(a1, attributes, 1,
                                             path \o <<".">> \o s_attributes, component)
            ELSE a1
      a3 == IF ~Truthy(traits) THEN a2
            ELSE IF ~IsArr(traits) THEN Throw(a2)
            ELSE GrapeJSExtractTraits(a2, traits.items, 1, path, component)
  IN IF a3.thrown THEN a3
     ELSE IF IsArr(children)
          THEN GrapeJSExtractChildren(a3, children.items, 1, path \o <<".">> \o s_components)
          ELSE a3

\* Array.isArray(grapeData) ? grapeData : grapeData.components || []
\* (thrown for null); out is the list the walk runs over, when it is a list.
GrapeJSComponents(grapeData) ==
  IF IsArr(grapeData) THEN NoThrow(grapeData)
  ELSE IF IsNullish(grapeData) THEN Throw(NoThrow(grapeData))
  ELSE IF Truthy(Prop(grapeData, s_components)) THEN NoThrow(Prop(grapeData, s_components))
  ELSE NoThrow(JArr(<<>>))

GrapeJSParse(content) ==
  IF ~content.json THEN <<>>
  ELSE LET components == GrapeJSComponents(content.value) IN
       IF components.thrown \/ ~IsArr(components.out) THEN <<>>
       ELSE GrapeJSExtractChildren(NoThrow(<<>>), components.out.items, 1, <<>>).out

(***************************************************************************)
(* GrapeJSParser.reconstruct                                               *)
(***************************************************************************)

\* Object.keys(component.attributes).forEach of reconstructComponent;
\* acc.out is component.attributes.
RECURSIVE GrapeJSReconstructAttributeKeys(_, _, _, _)
GrapeJSReconstructAttributeKeys(acc, i, path, translations) ==
  IF acc.thrown \/ i > Len(ObjectKeys(acc.out)) THEN acc
  ELSE LET key == ObjectKeys(acc.out)[i]
           attrPath == path \o <<".">> \o s_attributes \o <<".">> \o key
           next ==
             IF ~MapHas(translations, attrPath) THEN acc
             ELSE IF IsObj(acc.out)
                  THEN NoThrow(SetProp(acc.out, key, JStr(MapGet(translations, attrPath))))
             ELSE IF IsArr(acc.out)
                  THEN NoThrow([acc.out EXCEPT !.items[i] = JStr(MapGet(translations, attrPath))])
             ELSE Throw(acc)
       IN GrapeJSReconstructAttributeKeys(next, i + 1, path, translations)

\* component.traits.forEach of reconstructComponent; acc.out is the list.
RECURSIVE GrapeJSReconstructTraits(_, _, _, _)
GrapeJSReconstructTraits(acc, i, path, translations) ==
  IF acc.thrown \/ i > Len(acc.out) THEN acc
  ELSE LET traitPath == path \o <<".">> \o s_traits \o <<"[">> \o Dec(i - 1) \o <<"]">>
                          \o <<".">> \o s_value
           trait == updateTextPath(NoThrow(acc.out[i]), s_value, traitPath, translations)
       IN GrapeJSReconstructTraits(
            IF trait.thrown THEN Throw(acc)
            ELSE NoThrow([acc.out EXCEPT ![i] = trait.out]),
            i + 1, path, translations)

RECURSIVE reconstructComponent(_, _, _)
RECURSIVE GrapeJSReconstructChildren(_, _, _, _)

\* components.forEach; acc.out is the list of components.
GrapeJSReconstructChildren(acc, i, prefix, translations) ==
  IF acc.thrown \/ i > Len(acc.out) THEN acc
  ELSE LET c == reconstructComponent(acc.out[i],
                                     prefix \o <<"[">> \o Dec(i - 1) \o <<"]">>, translations)
       IN GrapeJSReconstructChildren(
            IF c.thrown THEN Throw(acc) ELSE NoThrow([acc.out EXCEPT ![i] = c.out]),
            i + 1, prefix, translations)

\* if (component.attributes) { Object.keys(...).forEach(...) } of
\* reconstructComponent; c1 is the component after its content was set.
GrapeJSSetAttributes(c1, component, path, translations) ==
  IF c1.thrown \/ IsNullish(component) THEN Throw(c1)
  ELSE LET attributes == Prop(c1.out, s_attributes) IN
       IF ~Truthy(attributes) THEN c1
       ELSE LET newAttributes == GrapeJSReconstructAttributeKeys(NoThrow(attributes), 1,
                                                                 path, translations)
            IN IF newAttributes.thrown THEN Throw(c1)
               ELSE NoThrow(SetProp(c1.out, s_attributes, newAttributes.out))

\* if (component.traits) { component.traits.forEach(...) } of
\* reconstructComponent
GrapeJSSetTraits(c2, path, translations) ==
  IF c2.thrown THEN c2
  ELSE LET traits == Prop(c2.out, s_traits) IN
       IF ~Truthy(traits) THEN c2
       ELSE IF ~IsArr(traits) THEN Throw(c2)
       ELSE LET newTraits == GrapeJSReconstructTraits(NoThrow(traits.items), 1, path,
                                                      translations)
            IN IF newTraits.thrown THEN Throw(c2)
               ELSE NoThrow(SetProp(c2.out, s_traits, JArr(newTraits.out)))

\* if (Array.isArray(component.components)) { ...forEach(...) } of
\* reconstructComponent
GrapeJSSetChildren(c3, path, translations) ==
  IF c3.thrown THEN c3
  ELSE LET children == Prop(c3.out, s_components) IN
       IF ~IsArr(children) THEN c3
       ELSE LET newChildren == GrapeJSReconstructChildren(NoThrow(children.items), 1,
                                 path \o <<".">> \o s_components, translations)
            IN IF newChildren.thrown THEN Throw(c3)
               ELSE NoThrow(SetProp(c3.out, s_components, JArr(newChildren.out)))

reconstructComponent(component, path, translations) ==
  GrapeJSSetChildren(
    GrapeJSSetTraits(
      GrapeJSSetAttributes(
        updateTextPath(NoThrow(component), s_content, path \o <<".">> \o s_content,
                       translations),
        component, path, translations),
      path, translations),
    path, translations)

\* { ...grapeData, components }: the own enumerable properties of grapeData
\* (those of an object, the indexed characters of a string, none of a number),
\* with components set.
SpreadWithComponents(grapeData, components) ==
  LET base == IF IsObj(grapeData) THEN grapeData
              ELSE IF IsStr(grapeData)
                   THEN JObj(ObjectKeys(grapeData),
                             [i \in 1..Len(grapeData.s) |-> OwnValue(grapeData, i)])
                   ELSE JObj(<<>>, <<>>)
  IN SetProp(base, s_components, components)

GrapeJSReconstruct(originalContent, translations) ==
  IF ~originalContent.json THEN originalContent
  ELSE LET grapeData == originalContent.value
           components == GrapeJSComponents(grapeData)
           rebuilt == GrapeJSReconstructChildren(NoThrow(components.out.items), 1, <<>>,
                                                 translations)
       IN IF components.thrown \/ ~IsArr(components.out) THEN originalContent
          ELSE IF rebuilt.thrown THEN originalContent
          ELSE IF IsArr(grapeData) THEN JsonContent(JArr(rebuilt.out))
          ELSE JsonContent(SpreadWithComponents(grapeData, JArr(rebuilt.out)))

(***************************************************************************)
(* JsonParser                                                              *)
(***************************************************************************)

\* validate: JSON.parse(content) does not throw.
JsonValidate(content) == content.json

\* /^[^\s@]+@[^\s@]+\.[^\s@]+$/
emailPattern(value) ==
  LET at == IndexFrom(value, "@", 1) IN
  /\ \A i \in 1..Len(value) : ~IsWs(value[i])
  /\ at > 1
  /\ IndexFrom(value, "@", at + 1) = 0
  /\ \E dot \in (at + 2)..(Len(value) - 1) : value[dot] = "."

\* /^[a-f0-9-]{8,}$/i
idPattern(value) ==
  /\ Len(value) >= 8
  /\ \A i \in 1..Len(value) : IsHexDigit(value[i]) \/ value[i] = "-"

\* isTextualContent(value) of the JSON parser
JsonIsTextualContent(value) ==
  /\ Len(Trim(value)) > 2
  /\ ~urlPattern(value)
  /\ ~emailPattern(value)
  /\ ~idPattern(value)

\* getContextForKey: both branches build `${parentContext} ${key}`.
getContextForKey(key, parentContext) == parentContext \o <<" ">> \o key

\* path ? `${path}.${key}` : key
JsonKeyPath(path, key) == IF path # <<>> THEN path \o <<".">> \o key ELSE key

\* `${path}[${index}]`
JsonIndexPath(path, index) == path \o <<"[">> \o Dec(index) \o <<"]">>

RECURSIVE extractFromObject(_, _, _, _)
RECURSIVE JsonExtractMembers(_, _, _, _, _)

\* obj.forEach / Object.keys(obj).forEach of extractFromObject
JsonExtractMembers(acc, obj, i, path, context) ==
  IF i > Len(ObjectKeys(obj)) THEN acc
  ELSE JsonExtractMembers(
         IF IsArr(obj)
         THEN extractFromObject(acc, obj.items[i], JsonIndexPath(path, i - 1),
                                context \o <<" ","a","r","r","a","y"," ","i","t","e","m">>)
         ELSE extractFromObject(acc, obj.vals[i], JsonKeyPath(path, obj.keys[i]),
                                getContextForKey(obj.keys[i], context)),
         obj, i + 1, path, context)

extractFromObject(acc, obj, path, context) ==
  IF IsNullish(obj) THEN acc
  ELSE IF IsStr(obj)
       THEN IF JsonIsTextualContent(obj.s)
            THEN Push(acc, Fragment(path, obj.s, context, "text"))
            ELSE acc
  ELSE IF IsArr(obj) \/ IsObj(obj) THEN JsonExtractMembers(acc, obj, 1, path, context)
  ELSE acc

JsonParse(content) ==
  IF ~content.json THEN <<>>
  ELSE extractFromObject(NoThrow(<<>>), content.value, <<>>, <<"J","S","O","N">>).out

RECURSIVE reconstructObject(_, _, _)
RECURSIVE JsonReconstructMembers(_, _, _, _)

\* obj.forEach / Object.keys(obj).forEach of reconstructObject
JsonReconstructMembers(obj, i, path, translations) ==
  IF i > Len(ObjectKeys(obj)) THEN obj
  ELSE LET memberPath == IF IsArr(obj) THEN JsonIndexPath(path, i - 1)
                         ELSE JsonKeyPath(path, obj.keys[i])
           member == OwnValue(obj, i)
           newMember == IF MapHas(translations, memberPath)
                        THEN JStr(MapGet(translations, memberPath))
                        ELSE reconstructObject(member, memberPath, translations)
           next == IF IsArr(obj) THEN [obj EXCEPT !.items[i] = newMember]
                   ELSE [obj EXCEPT !.vals[i] = newMember]
       IN JsonReconstructMembers(next, i + 1, path, translations)

\* A string is left to its parent; null and numbers are left alone.
reconstructObject(obj, path, translations) ==
  IF IsArr(obj) \/ IsObj(obj) THEN JsonReconstructMembers(obj, 1, path, translations)
  ELSE obj

JsonReconstruct(originalContent, translations) ==
  IF ~originalContent.json THEN originalContent
  ELSE JsonContent(reconstructObject(originalContent.value, <<>>, translations))

(***************************************************************************)
(* The text of a content: JSON.stringify for a JSON content (the regular   *)
(* expressions of the text parsers' validate see it as a string).  The     *)
(* alphabet of the model has no character that JSON escapes.               *)
(***************************************************************************)

RECURSIVE Stringify(_)
RECURSIVE StringifyMembers(_, _)

StringifyMembers(v, i) ==
  IF i > Len(ObjectKeys(v)) THEN <<>>
  ELSE (IF i > 1 THEN <<",">> ELSE <<>>)
       \o (IF IsObj(v) THEN <<"\"">> \o v.keys[i] \o <<"\"", ":">> ELSE <<>>)
       \o Stringify(IF IsNullish(OwnValue(v, i)) THEN JNull ELSE OwnValue(v, i))
       \o StringifyMembers(v, i + 1)

Stringify(v) ==
  CASE v.k = "str" -> <<"\"">> \o v.s \o <<"\"">>
    [] v.k = "num" -> Dec(v.n)
    [] v.k = "null" -> s_null
    [] v.k = "arr" -> <<"[">> \o StringifyMembers(v, 1) \o <<"]">>
    [] v.k = "obj" -> <<"{">> \o StringifyMembers(v, 1) \o <<"}">>

ContentText(content) == IF content.json THEN Stringify(content.value) ELSE content.text

(***************************************************************************)
(* HtmlParser: validate and reconstruct                                    *)
(***************************************************************************)

\* /<[^>]+>/.test(content)
HtmlValidate(content) ==
  LET s == ContentText(content) IN
  \E i \in 1..Len(s) :
    /\ s[i] = "<"
    /\ i + 1 <= Len(s)
    /\ s[i + 1] # ">"
    /\ IndexFrom(s, ">", i + 2) # 0

\* The length of the run of whitespace of s that starts at position i.
RECURSIVE WsRun(_, _)
WsRun(s, i) == IF i <= Len(s) /\ IsWs(s[i]) THEN 1 + WsRun(s, i + 1) ELSE 0

\* s has p at position i.
HasAt(s, p, i) == i >= 1 /\ i + Len(p) - 1 <= Len(s) /\ SubSeq(s, i, i + Len(p) - 1) = p

\* A match of (>\s*)(original)(\s*<) that starts at position i, with a
\* whitespace characters taken by the first \s*: the position of its '<',
\* or 0 when there is no such match.
HtmlTextMatchEnd(s, original, i, a) ==
  LET afterText == i + 1 + a + Len(original)
      lt == afterText + WsRun(s, afterText)
  IN IF /\ s[i] = ">"
        /\ a <= WsRun(s, i + 1)
        /\ HasAt(s, original, i + 1 + a)
        /\ lt <= Len(s)
        /\ s[lt] = "<"
     THEN lt ELSE 0

\* The number of whitespace characters the greedy first \s* keeps in the match
\* at position i (the largest that lets the rest match), -1 without a match.
HtmlTextMatch(s, original, i) ==
  LET as == {a \in 0..WsRun(s, i + 1) : HtmlTextMatchEnd(s, original, i, a) # 0}
  IN IF as = {} THEN -1 ELSE CHOOSE a \in as : \A b \in as : b <= a

\* reconstructed.replace(new RegExp(`(>\\s*)(${escapedOriginal})(\\s*<)`, 'g'),
\*                       `$1${translatedText}$3`), scanning from position i
RECURSIVE HtmlReplaceText(_, _, _, _)
HtmlReplaceText(s, original, translated, i) ==
  LET starts == {j \in i..Len(s) : HtmlTextMatch(s, original, j) # -1} IN
  IF starts = {} THEN SubSeq(s, i, Len(s))
  ELSE LET j == CHOOSE j \in starts : \A m \in starts : j <= m
           a == HtmlTextMatch(s, original, j)
           lt == HtmlTextMatchEnd(s, original, j, a)
       IN SubSeq(s, i, j + a) \o translated
            \o SubSeq(s, j + 1 + a + Len(original), lt)
            \o HtmlReplaceText(s, original, translated, lt + 1)

HtmlAttributeNames == {s_alt, s_title, s_placeholder, s_ariaLabel, s_dataText}

IsQuote(c) == c \in {"\"", "'"}

\* A match of ((?:alt|title|placeholder|aria-label|data-text)=["'])(original)(["'])
\* that starts at position i: the position of its closing quote, 0 without one.
HtmlAttrMatchEnd(s, original, i) ==
  LET names == {n \in HtmlAttributeNames :
                  /\ HasAt(s, n \o <<"=">>, i)
                  /\ i + Len(n) + 1 <= Len(s)
                  /\ IsQuote(s[i + Len(n) + 1])
                  /\ HasAt(s, original, i + Len(n) + 2)
                  /\ i + Len(n) + 2 + Len(original) <= Len(s)
                  /\ IsQuote(s[i + Len(n) + 2 + Len(original)])}
  IN IF names = {} THEN 0
     ELSE LET n == CHOOSE n \in names : TRUE IN i + Len(n) + 2 + Len(original)

\* reconstructed.replace(attrRegex, `$1${translatedText}$3`), scanning from i
RECURSIVE HtmlReplaceAttr(_, _, _, _)
HtmlReplaceAttr(s, original, translated, i) ==
  LET starts == {j \in i..Len(s) : HtmlAttrMatchEnd(s, original, j) # 0} IN
  IF starts = {} THEN SubSeq(s, i, Len(s))
  ELSE LET j == CHOOSE j \in starts : \A m \in starts : j <= m
           e == HtmlAttrMatchEnd(s, original, j)
       IN SubSeq(s, i, e - 1 - Len(original)) \o translated \o <<s[e]>>
            \o HtmlReplaceAttr(s, original, translated, e + 1)

\* if (translation.translatedText &&
\*     translation.translatedText !== translation.originalText)
IsTranslated(translation) ==
  /\ TruthyText(translation.translatedText)
  /\ translation.translatedText # translation.originalText

\* translations.forEach of HtmlParser.reconstruct
RECURSIVE HtmlReconstructText(_, _, _)
HtmlReconstructText(reconstructed, translations, i) ==
  IF i > Len(translations) THEN reconstructed
  ELSE LET t == translations[i]
           next == IF IsTranslated(t)
                   THEN HtmlReplaceAttr(
                          HtmlReplaceText(reconstructed, t.originalText,
                                          t.translatedText, 1),
                          t.originalText, t.translatedText, 1)
                   ELSE reconstructed
       IN HtmlReconstructText(next, translations, i + 1)

\* reconstruct works on the content string, whatever it holds; an unchanged
\* string is the original content.
HtmlReconstruct(originalContent, translations) ==
  LET reconstructed == HtmlReconstructText(ContentText(originalContent), translations, 1)
  IN IF reconstructed = ContentText(originalContent) THEN originalContent
     ELSE TextContent(reconstructed)

(***************************************************************************)
(* HtmlParser.parse.  The DOM that tempDiv.innerHTML = content builds is   *)
(* the browser's; a document of the model carries, next to its text, the   *)
(* child nodes the browser gives tempDiv for that text.                    *)
(***************************************************************************)

\* A text node and an element node, tagName in lower case.
HtmlTextNode(text) ==
  [k |-> "text", text |-> text, tag |-> <<>>, attrs |-> <<>>, children |-> <<>>]
HtmlElement(tag, attrs, children) ==
  [k |-> "element", text |-> <<>>, tag |-> tag, attrs |-> attrs, children |-> children]
HtmlAttribute(name, value) == [name |-> name, value |-> value]

\* const textualAttributes of extractAttributes
textualAttributes == {s_alt, s_title, s_placeholder, s_ariaLabel, s_dataText, s_value}

\* The names of attrRegex in extractWithRegex.
HtmlRegexAttributeNames == {s_alt, s_title, s_placeholder, s_ariaLabel, s_dataText}

\* HtmlParser.getAttributeType
HtmlGetAttributeType(attributeName) ==
  LET n == ToLowerCase(attributeName) IN
  CASE n = s_alt -> "alt"
    [] n = s_title -> "title"
    [] n = s_placeholder -> "placeholder"
    [] n = s_ariaLabel \/ n = s_dataText -> "meta"
    [] OTHER -> "text"

\* extractAttributes: for (const attr of element.attributes), from the a-th on
RECURSIVE HtmlExtractAttributes(_, _, _, _)
HtmlExtractAttributes(out, element, path, a) ==
  IF a > Len(element.attrs) THEN out
  ELSE LET attr == element.attrs[a] IN
       HtmlExtractAttributes(
         IF attr.name \in textualAttributes /\ Trim(attr.value) # <<>>
         THEN Append(out, Fragment(path \o <<"@">> \o attr.name, attr.value,
                                   attr.name \o <<" ","a","t","t","r","i","b","u","t","e",
                                                  " ","o","f"," ">> \o element.tag,
                                   HtmlGetAttributeType(attr.name)))
         ELSE out,
         element, path, a + 1)

\* extractFromElement: the loop over element.childNodes from index i on
RECURSIVE extractFromElement(_, _, _, _)
extractFromElement(out, element, path, i) ==
  IF i >= Len(element.children) THEN out
  ELSE LET node == element.children[i + 1]
           childPath == path \o node.tag \o <<"[">> \o Dec(i) \o <<"]", ".">>
       IN extractFromElement(
            IF node.k = "text"
            THEN IF Len(Trim(node.text)) > 1
                 THEN Append(out, Fragment(path \o <<"t","e","x","t","N","o","d","e","[">>
                                             \o Dec(i) \o <<"]">>,
                                           Trim(node.text),
                                           <<"t","e","x","t"," ","i","n"," ">> \o element.tag,
                                           "text"))
                 ELSE out
            ELSE extractFromElement(HtmlExtractAttributes(out, node, childPath, 1),
                                    node, childPath, 0),
            element, path, i + 1)

\* A match of />([^<]+)</ at position j of s: the position of its '<', 0
\* when it does not match there.
HtmlBetweenTagsEnd(s, j) ==
  IF s[j] = ">" /\ IndexFrom(s, "<", j + 1) > j + 1 THEN IndexFrom(s, "<", j + 1) ELSE 0

\* The first while loop of extractWithRegex, textRegex.lastIndex being from - 1
RECURSIVE HtmlRegexTexts(_, _, _, _)
HtmlRegexTexts(out, s, from, index) ==
  LET starts == {j \in from..Len(s) : HtmlBetweenTagsEnd(s, j) # 0} IN
  IF starts = {} THEN out
  ELSE LET j == CHOOSE j \in starts : \A m \in starts : j <= m
           lt == HtmlBetweenTagsEnd(s, j)
           text == Trim(SubSeq(s, j + 1, lt - 1))
       IN IF Len(text) > 1
          THEN HtmlRegexTexts(
                 Append(out, Fragment(<<"r","e","g","e","x","_","t","e","x","t","_">> \o Dec(index),
                                      text,
                                      <<"H","T","M","L"," ","t","e","x","t"," ",
                                        "c","o","n","t","e","n","t">>,
                                      "text")),
                 s, lt + 1, index + 1)
          ELSE HtmlRegexTexts(out, s, lt + 1, index)

\* The length of the run of characters other than quotes of s from position i.
RECURSIVE NoQuoteRun(_, _)
NoQuoteRun(s, i) == IF i <= Len(s) /\ ~IsQuote(s[i]) THEN 1 + NoQuoteRun(s, i + 1) ELSE 0

\* A match of (alt|title|placeholder|aria-label|data-text)=["']([^"']+)["']
\* with the name n at position j of s: the position of its closing quote, 0
\* when it does not match there.
HtmlRegexAttrEnd(s, n, j) ==
  LET value == j + Len(n) + 2
  IN IF /\ HasAt(s, n \o <<"=">>, j)
        /\ value - 1 <= Len(s)
        /\ IsQuote(s[value - 1])
        /\ NoQuoteRun(s, value) >= 1
        /\ value + NoQuoteRun(s, value) <= Len(s)
     THEN value + NoQuoteRun(s, value) ELSE 0

\* The second while loop of extractWithRegex
RECURSIVE HtmlRegexAttributes(_, _, _, _)
HtmlRegexAttributes(out, s, from, index) ==
  LET starts == {j \in from..Len(s) :
                   \E n \in HtmlRegexAttributeNames : HtmlRegexAttrEnd(s, n, j) # 0}
  IN IF starts = {} THEN out
     ELSE LET j == CHOOSE j \in starts : \A m \in starts : j <= m
              attrName == CHOOSE n \in HtmlRegexAttributeNames : HtmlRegexAttrEnd(s, n, j) # 0
              e == HtmlRegexAttrEnd(s, attrName, j)
              attrValue == Trim(SubSeq(s, j + Len(attrName) + 2, e - 1))
          IN IF attrValue # <<>>
             THEN HtmlRegexAttributes(
                    Append(out, Fragment(<<"r","e","g","e","x","_","a","t","t","r","_">> \o Dec(index),
                                         attrValue,
                                         attrName \o <<" ","a","t","t","r","i","b","u","t","e">>,
                                         HtmlGetAttributeType(attrName))),
                    s, e + 1, index + 1)
             ELSE HtmlRegexAttributes(out, s, e + 1, index)

\* extractWithRegex(content, extractedTexts)
extractWithRegex(out, content) ==
  HtmlRegexAttributes(HtmlRegexTexts(out, content, 1, 0), content, 1, 0)

\* tempDiv, with the child nodes of the document
HtmlTempDiv(childNodes) == HtmlElement(<<"d","i","v">>, <<>>, childNodes)

\* HtmlParser.parse: the DOM walk, or the regex fallback when
\* document.createElement throws (no DOM where the parser runs); the walk
\* itself does not throw, so the fallback starts from the empty list.
HtmlParse(document, threw) ==
  IF threw THEN extractWithRegex(<<>>, document.text)
  ELSE extractFromElement(<<>>, HtmlTempDiv(document.childNodes), <<>>, 0)

(***************************************************************************)
(* MarkdownParser: validate and reconstruct                                *)
(***************************************************************************)

\* Position i is the start of a line (the ^ of a /m expression).
LineStart(s, i) == i = 1 \/ s[i - 1] = "\n"

\* The first position of the line of s that holds position i, and the last.
LineEnd(s, i) ==
  LET ends == {j \in i..(Len(s) + 1) : j > Len(s) \/ s[j] = "\n"}
  IN (CHOOSE j \in ends : \A m \in ends : j <= m) - 1

\* The length of the run of c of s that starts at position i.
RECURSIVE CharRun(_, _, _)
CharRun(s, c, i) == IF i <= Len(s) /\ s[i] = c THEN 1 + CharRun(s, c, i + 1) ELSE 0

\* The backquote character: TLA+ strings cannot hold one, "~" stands for it.
Backquote == "~"

s_fence == <<Backquote, Backquote, Backquote>>

MarkdownValidate(content) ==
  LET s == ContentText(content) IN
  \* /^#{1,6}\s+/m
  \/ \E i \in 1..Len(s) :
       /\ LineStart(s, i)
       /\ CharRun(s, "#", i) \in 1..6
       /\ WsRun(s, i + CharRun(s, "#", i)) > 0
  \* /\*\*.*\*\*/ and /\*.*\*/
  \/ \E i \in 1..Len(s) :
       /\ s[i] = "*"
       /\ \E j \in (i + 1)..LineEnd(s, i) : s[j] = "*"
  \* /\[.*\]\(.*\)/
  \/ \E i \in 1..Len(s) :
       /\ s[i] = "["
       /\ \E j \in (i + 1)..LineEnd(s, i) :
            /\ HasAt(s, <<"]", "(">>, j)
            /\ \E m \in (j + 2)..LineEnd(s, i) : s[m] = ")"
  \* /^[-*+]\s+/m and /^>\s+/m
  \/ \E i \in 1..Len(s) :
       /\ LineStart(s, i)
       /\ s[i] \in {"-", "*", "+", ">"}
       /\ WsRun(s, i + 1) > 0
  \* /```[\s\S]*```/
  \/ \E i \in 1..Len(s) :
       /\ HasAt(s, s_fence, i)
       /\ \E j \in (i + 3)..Len(s) : HasAt(s, s_fence, j)

\* \w
IsWordChar(c) == IsIn(c, UpperCase) \/ IsIn(c, LowerCase) \/ IsDigit(c) \/ c = "_"

\* \b just before position i of s (i in 1..Len(s)+1)
WordBoundary(s, i) ==
  LET before == i > 1 /\ IsWordChar(s[i - 1])
      after == i <= Len(s) /\ IsWordChar(s[i])
  IN before # after

\* A match of \boriginal\b at position i.
MarkdownTextMatch(s, original, i) ==
  /\ WordBoundary(s, i)
  /\ HasAt(s, original, i)
  /\ WordBoundary(s, i + Len(original))

\* reconstructed.replace(new RegExp(`\\b${escapedOriginal}\\b`, 'g'), translatedText),
\* scanning from position i; an empty match is followed by one step forward.
RECURSIVE MarkdownReplaceText(_, _, _, _)
MarkdownReplaceText(s, original, translated, i) ==
  LET starts == {j \in i..(Len(s) + 1) : MarkdownTextMatch(s, original, j)} IN
  IF starts = {} THEN SubSeq(s, i, Len(s))
  ELSE LET j == CHOOSE j \in starts : \A m \in starts : j <= m IN
       SubSeq(s, i, j - 1) \o translated
         \o (IF original = <<>> /\ j <= Len(s) THEN <<s[j]>> ELSE <<>>)
         \o MarkdownReplaceText(s, original, translated,
                                IF original = <<>> THEN j + 1 ELSE j + Len(original))

\* A match of (!\[)(original)(\]\([^)]+\)) at position i: the position of its
\* closing parenthesis, 0 without a match.
MarkdownAltMatchEnd(s, original, i) ==
  LET open == i + 2 + Len(original)
      close == IndexFrom(s, ")", open + 2)
  IN IF /\ HasAt(s, <<"!", "[">>, i)
        /\ HasAt(s, original, i + 2)
        /\ HasAt(s, <<"]", "(">>, open)
        /\ close > open + 2
     THEN close ELSE 0

\* reconstructed.replace(imageRegex, `$1${translatedText}$3`), scanning from i
RECURSIVE MarkdownReplaceAlt(_, _, _, _)
MarkdownReplaceAlt(s, original, translated, i) ==
  LET starts == {j \in i..Len(s) : MarkdownAltMatchEnd(s, original, j) # 0} IN
  IF starts = {} THEN SubSeq(s, i, Len(s))
  ELSE LET j == CHOOSE j \in starts : \A m \in starts : j <= m
           e == MarkdownAltMatchEnd(s, original, j)
       IN SubSeq(s, i, j + 1) \o translated \o SubSeq(s, j + 2 + Len(original), e)
            \o MarkdownReplaceAlt(s, original, translated, e + 1)

\* translations.forEach of MarkdownParser.reconstruct
RECURSIVE MarkdownReconstructText(_, _, _)
MarkdownReconstructText(reconstructed, translations, i) ==
  IF i > Len(translations) THEN reconstructed
  ELSE LET t == translations[i]
           next == IF ~IsTranslated(t) THEN reconstructed
                   ELSE IF t.type = "alt"
                        THEN MarkdownReplaceAlt(reconstructed, t.originalText,
                                                t.translatedText, 1)
                        ELSE MarkdownReplaceText(reconstructed, t.originalText,
                                                 t.translatedText, 1)
       IN MarkdownReconstructText(next, translations, i + 1)

MarkdownReconstruct(originalContent, translations) ==
  LET reconstructed == MarkdownReconstructText(ContentText(originalContent),
                                               translations, 1)
  IN IF reconstructed = ContentText(originalContent) THEN originalContent
     ELSE TextContent(reconstructed)

(***************************************************************************)
(* MarkdownParser.parse                                                    *)
(***************************************************************************)

\* content.split('\n')
SplitLines(s) ==
  LET breaks == {i \in 1..Len(s) : s[i] = "\n"}
      n == Cardinality(breaks)
      break(k) == IF k = 0 THEN 0
                  ELSE IF k = n + 1 THEN Len(s) + 1
                  ELSE CHOOSE i \in breaks : Cardinality({j \in breaks : j <= i}) = k
  IN [k \in 1..(n + 1) |-> SubSeq(s, break(k - 1) + 1, break(k) - 1)]

\* `line_${lineIndex}${suffix}`
LineId(lineIndex, suffix) == <<"l","i","n","e","_">> \o Dec(lineIndex) \o suffix

x_header == <<"_","h","e","a","d","e","r">>
x_link == <<"_","l","i","n","k","_">>
x_image == <<"_","i","m","a","g","e","_">>
x_blockquote == <<"_","b","l","o","c","k","q","u","o","t","e">>
x_list_item == <<"_","l","i","s","t","_","i","t","e","m">>
x_text == <<"_","t","e","x","t">>
c_linktext == <<"l","i","n","k"," ","t","e","x","t">>
c_blockquote == <<"b","l","o","c","k","q","u","o","t","e">>
c_para == <<"p","a","r","a","g","r","a","p","h"," ","t","e","x","t">>
c_imgalt == <<"i","m","a","g","e"," ","a","l","t"," ","t","e","x","t">>
c_listitem == <<" ","l","i","s","t"," ","i","t","e","m">>
c_ordered == <<"o","r","d","e","r","e","d">>
c_unordered == <<"u","n","o","r","d","e","r","e","d">>

\* The text of (.+)$ after \s+ or \s* that starts at position i of line: the
\* rest of the line after its whitespace, or the last whitespace character
\* when nothing else is left.
RestAfterWs(line, i) ==
  LET rest == i + WsRun(line, i)
  IN IF rest <= Len(line) THEN SubSeq(line, rest, Len(line)) ELSE <<line[Len(line)]>>

\* \s+(.+)$ matches at position i of line.
WsThenText(line, i) ==
  /\ WsRun(line, i) >= 1
  /\ i + WsRun(line, i) <= Len(line) \/ WsRun(line, i) >= 2

\* extractHeaders: line.match(/^(#{1,6})\s+(.+)$/)
extractHeaders(out, line, lineIndex) ==
  LET level == CharRun(line, "#", 1)
  IN IF level \in 1..6 /\ WsThenText(line, level + 1)
     THEN Append(out, Fragment(LineId(lineIndex, x_header),
                               Trim(RestAfterWs(line, level + 1)),
                               <<"H">> \o Dec(level) \o <<" ","h","e","a","d","e","r">>,
                               "text"))
     ELSE out

\* A match of \[([^\]]{minText,})\]\([^)]+\) that starts at position i of
\* line: the position of its ')', or 0 when there is none.
MarkdownLinkMatchEnd(line, i, minText) ==
  LET close == IndexFrom(line, "]", i + 1)
      paren == IF close = 0 THEN 0 ELSE IndexFrom(line, ")", close + 2)
  IN IF /\ i >= 1 /\ i <= Len(line) /\ line[i] = "["
        /\ close >= i + 1 + minText
        /\ close + 1 <= Len(line) /\ line[close + 1] = "("
        /\ paren > close + 2
     THEN paren ELSE 0

\* The first position from `from` on where a link matches, 0 when none does.
MarkdownNextLink(line, from) ==
  LET starts == {i \in from..Len(line) : MarkdownLinkMatchEnd(line, i, 1) # 0}
  IN IF starts = {} THEN 0 ELSE CHOOSE i \in starts : \A m \in starts : i <= m

\* The first position from `from` on where an image matches, 0 when none does.
MarkdownNextImage(line, from) ==
  LET starts == {i \in from..Len(line) :
                   line[i] = "!" /\ MarkdownLinkMatchEnd(line, i + 1, 0) # 0}
  IN IF starts = {} THEN 0 ELSE CHOOSE i \in starts : \A m \in starts : i <= m

\* extractLinks: the exec loop of /\[([^\]]+)\]\([^)]+\)/g
RECURSIVE extractLinks(_, _, _, _, _)
extractLinks(out, line, lineIndex, from, linkIndex) ==
  IF MarkdownNextLink(line, from) = 0 THEN out
  ELSE CHOOSE r \in
         {extractLinks(
            Append(out, Fragment(LineId(lineIndex, x_link) \o Dec(linkIndex),
                                 SubSeq(line, i + 1, IndexFrom(line, "]", i + 1) - 1),
                                 c_linktext, "text")),
            line, lineIndex, MarkdownLinkMatchEnd(line, i, 1) + 1, linkIndex + 1) :
              i \in {MarkdownNextLink(line, from)}} : TRUE

\* extractImages: the exec loop of /!\[([^\]]*)\]\([^)]+\)/g
RECURSIVE extractImages(_, _, _, _, _)
extractImages(out, line, lineIndex, from, imageIndex) ==
  IF MarkdownNextImage(line, from) = 0 THEN out
  ELSE CHOOSE r \in
         {extractImages(
            IF Trim(SubSeq(line, i + 2, IndexFrom(line, "]", i + 2) - 1)) # <<>>
            THEN Append(out, Fragment(LineId(lineIndex, x_image) \o Dec(imageIndex),
                                      SubSeq(line, i + 2, IndexFrom(line, "]", i + 2) - 1),
                                      c_imgalt, "alt"))
            ELSE out,
            line, lineIndex, MarkdownLinkMatchEnd(line, i + 1, 0) + 1, imageIndex + 1) :
              i \in {MarkdownNextImage(line, from)}} : TRUE

\* extractBlockquotes: line.match(/^>\s*(.+)$/)
extractBlockquotes(out, line, lineIndex) ==
  IF Len(line) >= 2 /\ line[1] = ">"
  THEN Append(out, Fragment(LineId(lineIndex, x_blockquote),
                            Trim(RestAfterWs(line, 2)), c_blockquote, "text"))
  ELSE out

\* The length of ([-*+]|\d+\.) at position i of line, 0 when it does not match.
ListMarker(line, i) ==
  IF i > Len(line) THEN 0
  ELSE IF line[i] \in {"-", "*", "+"} THEN 1
  ELSE IF /\ DigitRun(line, i) > 0
          /\ i + DigitRun(line, i) <= Len(line)
          /\ line[i + DigitRun(line, i)] = "."
       THEN DigitRun(line, i) + 1
  ELSE 0

\* extractListItems: line.match(/^(\s*)([-*+]|\d+\.)\s+(.+)$/)
extractListItems(out, line, lineIndex) ==
  LET marker == WsRun(line, 1) + 1
      after == marker + ListMarker(line, marker)
  IN IF ListMarker(line, marker) > 0 /\ WsThenText(line, after)
     THEN Append(out, Fragment(LineId(lineIndex, x_list_item),
                               Trim(RestAfterWs(line, after)),
                               (IF ListMarker(line, marker) > 1 THEN c_ordered
                                ELSE c_unordered) \o c_listitem,
                               "text"))
     ELSE out

\* A match of open([^c]+)close that starts at position i of s: the position
\* of close, or 0 when there is none.
DelimitedMatchEnd(s, open, c, close, i) ==
  LET start == i + Len(open)
      stop == IF IndexFrom(s, c, start) = 0 THEN Len(s) + 1 ELSE IndexFrom(s, c, start)
  IN IF HasAt(s, open, i) /\ stop > start /\ HasAt(s, close, stop) THEN stop ELSE 0

DelimitedNext(s, open, c, close, from) ==
  LET starts == {i \in from..Len(s) : DelimitedMatchEnd(s, open, c, close, i) # 0}
  IN IF starts = {} THEN 0 ELSE CHOOSE i \in starts : \A m \in starts : i <= m

\* s.replace(/open([^c]+)close/g, '$1') from position `from` on
RECURSIVE ReplaceDelimited(_, _, _, _, _)
ReplaceDelimited(s, open, c, close, from) ==
  IF DelimitedNext(s, open, c, close, from) = 0 THEN SubSeq(s, from, Len(s))
  ELSE CHOOSE r \in
         {SubSeq(s, from, i - 1)
            \o SubSeq(s, i + Len(open), DelimitedMatchEnd(s, open, c, close, i) - 1)
            \o ReplaceDelimited(s, open, c, close,
                                DelimitedMatchEnd(s, open, c, close, i) + Len(close)) :
              i \in {DelimitedNext(s, open, c, close, from)}} : TRUE

\* s.replace(/\[([^\]]+)\]\([^)]+\)/g, '$1') from position `from` on
RECURSIVE ReplaceLinks(_, _)
ReplaceLinks(s, from) ==
  IF MarkdownNextLink(s, from) = 0 THEN SubSeq(s, from, Len(s))
  ELSE CHOOSE r \in
         {SubSeq(s, from, i - 1) \o SubSeq(s, i + 1, IndexFrom(s, "]", i + 1) - 1)
            \o ReplaceLinks(s, MarkdownLinkMatchEnd(s, i, 1) + 1) :
              i \in {MarkdownNextLink(s, from)}} : TRUE

\* s.replace(/!\[([^\]]*)\]\([^)]+\)/g, '') from position `from` on
RECURSIVE RemoveImages(_, _)
RemoveImages(s, from) ==
  IF MarkdownNextImage(s, from) = 0 THEN SubSeq(s, from, Len(s))
  ELSE CHOOSE r \in
         {SubSeq(s, from, i - 1) \o RemoveImages(s, MarkdownLinkMatchEnd(s, i + 1, 0) + 1) :
            i \in {MarkdownNextImage(s, from)}} : TRUE

\* The chain of replace calls of extractPlainText, then trim.
MarkdownCleanText(line) ==
  LET bold == ReplaceDelimited(line, <<"*","*">>, "*", <<"*","*">>, 1)
      italic == ReplaceDelimited(bold, <<"*">>, "*", <<"*">>, 1)
      code == ReplaceDelimited(italic, <<Backquote>>, Backquote, <<Backquote>>, 1)
      links == ReplaceLinks(code, 1)
  IN Trim(RemoveImages(links, 1))

\* extractPlainText
extractPlainText(out, line, lineIndex) ==
  IF \/ CharRun(line, "#", 1) \in 1..6 /\ WsRun(line, CharRun(line, "#", 1) + 1) >= 1
     \/ Len(line) >= 1 /\ line[1] = ">" /\ WsRun(line, 2) >= 1
     \/ /\ ListMarker(line, WsRun(line, 1) + 1) > 0
        /\ WsRun(line, WsRun(line, 1) + 1 + ListMarker(line, WsRun(line, 1) + 1)) >= 1
  THEN out
  ELSE IF Len(MarkdownCleanText(line)) > 2
       THEN Append(out, Fragment(LineId(lineIndex, x_text),
                                 MarkdownCleanText(line), c_para, "text"))
       ELSE out

\* The six extract calls of the forEach callback, in their order.
MarkdownExtractLine(out, line, lineIndex) ==
  extractPlainText(
    extractListItems(
      extractBlockquotes(
        extractImages(
          extractLinks(extractHeaders(out, line, lineIndex), line, lineIndex, 1, 0),
          line, lineIndex, 1, 0),
        line, lineIndex),
      line, lineIndex),
    line, lineIndex)

\* The state of the forEach loop of parse before any line.
MarkdownParseStart == [out |-> <<>>, inCodeBlock |-> FALSE, codeBlockFence |-> <<>>]

\* line.trim().startsWith('```')
IsFenceLine(line) == HasAt(Trim(line), s_fence, 1)

\* The fence lines open and close the code block and emit nothing.
MarkdownFenceLine(acc, line) ==
  IF ~acc.inCodeBlock
  THEN [acc EXCEPT !.inCodeBlock = TRUE, !.codeBlockFence = Trim(line)]
  ELSE IF Trim(line) = acc.codeBlockFence \/ Trim(line) = s_fence
       THEN [acc EXCEPT !.inCodeBlock = FALSE, !.codeBlockFence = <<>>]
       ELSE acc

\* A plausible slip: the lines inside a code block are extracted as well.
MarkdownLineNoSkip(acc, line, lineIndex) ==
  IF IsFenceLine(line) THEN MarkdownFenceLine(acc, line)
  ELSE [acc EXCEPT !.out = MarkdownExtractLine(acc.out, line, lineIndex)]

\* The callback of lines.forEach
MarkdownLine(acc, line, lineIndex) ==
  IF IsFenceLine(line) THEN MarkdownFenceLine(acc, line)
  ELSE IF acc.inCodeBlock THEN acc
  ELSE [acc EXCEPT !.out = MarkdownExtractLine(acc.out, line, lineIndex)]

RECURSIVE MarkdownParseLines(_, _, _)
MarkdownParseLines(acc, lines, k) ==
  IF k > Len(lines) THEN acc
  ELSE CHOOSE r \in {MarkdownParseLines(next, lines, k + 1) :
                       next \in {MarkdownLine(acc, lines[k], k - 1)}} : TRUE

MarkdownParse(content) ==
  MarkdownParseLines(MarkdownParseStart, SplitLines(ContentText(content)), 1).out

(***************************************************************************)
(* The parsers by content type                                             *)
(***************************************************************************)

StructuralTypes == {"EDITOR_JS", "GRAPE_JS", "JSON"}
TextTypes == {"HTML", "MARKDOWN"}

\* parser.validate(content)
Validate(type, content) ==
  CASE type = "EDITOR_JS" -> EditorJSValidate(content)
    [] type = "GRAPE_JS" -> GrapeJSValidate(content)
    [] type = "HTML" -> HtmlValidate(content)
    [] type = "JSON" -> JsonValidate(content)
    [] type = "MARKDOWN" -> MarkdownValidate(content)

\* parser.parse(content) of the structural parsers and of the Markdown parser
Parse(type, content) ==
  CASE type = "EDITOR_JS" -> EditorJSParse(content)
    [] type = "GRAPE_JS" -> GrapeJSParse(content)
    [] type = "JSON" -> JsonParse(content)
    [] type = "MARKDOWN" -> MarkdownParse(content)

\* parser.reconstruct(originalContent, translations)
Reconstruct(type, originalContent, translations) ==
  CASE type = "EDITOR_JS" -> EditorJSReconstruct(originalContent, translations)
    [] type = "GRAPE_JS" -> GrapeJSReconstruct(originalContent, translations)
    [] type = "HTML" -> HtmlReconstruct(originalContent, translations)
    [] type = "JSON" -> JsonReconstruct(originalContent, translations)
    [] type = "MARKDOWN" -> MarkdownReconstruct(originalContent, translations)

(***************************************************************************)
(* The texts of the documents the model runs the parsers on                *)
(***************************************************************************)

t_Hello == <<"H","e","l","l","o">>
t_BoldHi == <<"<","b",">","H","i","<","/","b",">"," ","y","o","u">>
t_Padded == <<" ","H","i"," ">>
t_Br == <<"<","b","r",">">>
t_One == <<"O","n","e">>
t_ItalicTwo == <<"<","i",">","T","w","o","<","/","i",">">>
t_Said == <<"H","e"," ","s","a","i","d">>
t_Who == <<"b","y"," ","m","e">>
t_Cat == <<"A"," ","c","a","t">>
t_A1 == <<"A","1">>
t_Bx == <<"B"," ","<","b",">","x","<","/","b",">">>
t_DoIt == <<"D","o"," ","i","t">>
t_Careful == <<"C","a","r","e","f","u","l">>
t_Hot == <<"I","t"," ","i","s"," ","h","o","t">>
t_SomeText == <<"S","o","m","e"," ","t","e","x","t">>
t_Http == <<"h","t","t","p",":","/","/","x">>
t_aa == <<"a","a">>
t_first == <<"f","i","r","s","t">>
t_second == <<"s","e","c","o","n","d">>
t_PHello == <<"<","p",">","H","e","l","l","o","<","/","p",">">>
t_big == <<"b","i","g">>
t_YourName == <<"Y","o","u","r"," ","n","a","m","e">>
t_abc == <<"a","b","c">>
t_Child == <<"C","h","i","l","d">>
t_HelloWorld == <<"H","e","l","l","o"," ","w","o","r","l","d">>
t_one == <<"o","n","e">>
t_deadbeef == <<"d","e","a","d","b","e","e","f","-","1","2">>
t_xxx == <<"x","x","x">>
t_yyy == <<"y","y","y">>
t_Title == <<"T","i","t","l","e">>
t_CatAlt == <<"C","a","t">>
k_custom == <<"c","u","s","t","o","m">>
k_label == <<"l","a","b","e","l">>
k_tags == <<"t","a","g","s">>
k_n == <<"n">>
k_k0 == <<"k","[","0","]">>
k_k == <<"k">>
k_time == <<"t","i","m","e">>
k_img == <<"i","m","g">>
k_input == <<"i","n","p","u","t">>
k_a == <<"a">>
k_b == <<"b">>
k_ab == <<"a",".","b">>
k_ordered == <<"o","r","d","e","r","e","d">>
d_Oops == <<"{","o","o","p","s">>
d_MdTitle == <<"#"," ","T","i","t","l","e","\n","S","o","m","e"," ","t","e","x","t">>
d_MdImage == <<"!","[","C","a","t","]","(","c",".","p","n","g",")">>
d_HtmlP == <<"<","p",">","H","e","l","l","o","<","/","p",">">>
d_HtmlImg == <<"<","i","m","g"," ","a","l","t","=","\"","C","a","t","\"",">">>
p_line0header == <<"l","i","n","e","_","0","_","h","e","a","d","e","r">>
p_line1text == <<"l","i","n","e","_","1","_","t","e","x","t">>
p_line0image0 == <<"l","i","n","e","_","0","_","i","m","a","g","e","_","0">>
p_textNode0 == <<"p","[","0","]",".","t","e","x","t","N","o","d","e","[","0","]">>
p_imgAlt == <<"i","m","g","[","0","]",".","@","a","l","t">>
c_H1 == <<"H","1"," ","h","e","a","d","e","r">>
c_textp == <<"t","e","x","t"," ","i","n"," ","p">>
c_altimg == <<"a","l","t"," ","a","t","t","r","i","b","u","t","e"," ","o","f"," ","i","m","g">>

(***************************************************************************)
(* The contents handed to the parsers.  A JSON content stands for every    *)
(* string that JSON.parse maps to its value: contents are compared after   *)
(* canonical serialization, as JSON.stringify(value, null, 2) of the       *)
(* reconstruct methods only differs from the input by its layout.          *)
(***************************************************************************)

Block(type, keys, vals) == JObj(<<s_type, s_data>>, <<JStr(type), JObj(keys, vals)>>)

EditorJSDocument(blocks) == JsonContent(JObj(<<s_blocks>>, <<JArr(blocks)>>))

EditorJSDocuments ==
  << EditorJSDocument(<<Block(s_header, <<s_text>>, <<JStr(t_Hello)>>)>>),
     EditorJSDocument(<<Block(s_paragraph, <<s_text>>, <<JStr(t_BoldHi)>>)>>),
     EditorJSDocument(<<Block(s_paragraph, <<s_text>>, <<JStr(t_Padded)>>)>>),
     EditorJSDocument(<<Block(s_paragraph, <<s_text>>, <<JStr(t_Br)>>)>>),
     EditorJSDocument(<<Block(s_list, <<s_style, s_items>>,
                              <<JStr(k_ordered), JArr(<<JStr(t_One), JStr(t_ItalicTwo)>>)>>)>>),
     EditorJSDocument(<<Block(s_quote, <<s_caption, s_text>>,
                              <<JStr(t_Who), JStr(t_Said)>>)>>),
     EditorJSDocument(<<Block(s_image, <<s_file, s_caption>>,
                              <<JObj(<<s_url>>, <<JStr(t_Http)>>), JStr(t_Cat)>>)>>),
     EditorJSDocument(<<Block(s_table, <<s_content>>,
                              <<JArr(<<JArr(<<JStr(t_A1), JStr(t_Bx)>>),
                                       JArr(<<JStr(<<>>), JStr(t_One)>>)>>)>>)>>),
     EditorJSDocument(<<Block(s_checklist, <<s_items>>,
                              <<JArr(<<JObj(<<s_text>>, <<JStr(t_DoIt)>>),
                                       JObj(<<s_text>>, <<JStr(<<>>)>>)>>)>>)>>),
     EditorJSDocument(<<Block(s_warning, <<s_title, s_message>>,
                              <<JStr(t_Careful), JStr(t_Hot)>>)>>),
     EditorJSDocument(<<Block(k_custom, <<k_label, s_url, k_tags, k_n>>,
                              <<JStr(t_SomeText), JStr(t_Http),
                                JArr(<<JStr(t_aa), JStr(t_One)>>), JNum(5)>>)>>),
     EditorJSDocument(<<Block(k_custom, <<k_k0, k_k>>,
                              <<JStr(t_first), JArr(<<JStr(t_second)>>)>>)>>),
     EditorJSDocument(<<Block(s_header, <<s_text>>, <<JStr(t_Title)>>),
                        Block(s_paragraph, <<s_text>>, <<JStr(t_SomeText)>>)>>),
     EditorJSDocument(<<>>),
     EditorJSDocument(<<JNull>>),
     EditorJSDocument(<<JObj(<<s_type>>, <<JStr(s_paragraph)>>)>>),
     EditorJSDocument(<<Block(s_header, <<s_text>>, <<JNum(5)>>)>>),
     JsonContent(JObj(<<s_blocks>>, <<JStr(t_abc)>>)),
     JsonContent(JObj(<<k_time>>, <<JNum(1)>>)) >>

GrapeJSDocuments ==
  << JsonContent(JArr(<<JObj(<<s_type, s_content>>, <<JStr(s_text), JStr(t_PHello)>>)>>)),
     JsonContent(JObj(<<s_components>>,
       <<JArr(<<JObj(<<s_tagName, s_attributes>>,
                     <<JStr(k_img),
                       JObj(<<s_alt, s_src, s_class>>,
                            <<JStr(t_Cat), JStr(t_Http), JStr(t_big)>>)>>)>>)>>)),
     JsonContent(JArr(<<JObj(<<s_type, s_traits, s_components>>,
       <<JStr(k_input),
         JArr(<<JObj(<<s_name, s_value>>, <<JStr(s_placeholder), JStr(t_YourName)>>),
                JObj(<<s_name, s_value>>, <<JStr(s_id), JStr(t_abc)>>)>>),
         JArr(<<JObj(<<s_content>>, <<JStr(t_Child)>>)>>)>>)>>)),
     JsonContent(JObj(<<k_n, s_components>>,
       <<JNum(1), JArr(<<JObj(<<s_content>>, <<JStr(t_Hello)>>)>>)>>)),
     JsonContent(JObj(<<s_components>>, <<JNull>>)),
     JsonContent(JObj(<<s_components>>, <<JStr(t_abc)>>)),
     JsonContent(JObj(<<s_components>>, <<JObj(<<k_a>>, <<JNum(1)>>)>>)),
     JsonContent(JArr(<<JNull>>)),
     JsonContent(JArr(<<>>)) >>

JsonDocuments ==
  << JsonContent(JStr(t_HelloWorld)),
     JsonContent(JObj(<<s_title, k_n, k_tags, s_url, s_id>>,
       <<JStr(t_Hello), JNum(5), JArr(<<JStr(t_one), JStr(t_Cat)>>),
         JStr(t_Http), JStr(t_deadbeef)>>)),
     JsonContent(JObj(<<k_ab, k_a>>, <<JStr(t_xxx), JObj(<<k_b>>, <<JStr(t_yyy)>>)>>)),
     JsonContent(JObj(<<k_a, k_ab>>, <<JObj(<<k_b>>, <<JNum(7)>>), JStr(t_SomeText)>>)),
     JsonContent(JArr(<<JStr(t_abc), JArr(<<JStr(t_BoldHi)>>)>>)),
     JsonContent(JObj(<<k_a>>, <<JNum(1)>>)),
     JsonContent(JNum(5)),
     JsonContent(JNull),
     TextContent(d_Oops),
     JsonContent(JObj(<<s_title>>, <<JStr(t_BoldHi)>>)) >>

TextDocuments ==
  << TextContent(d_MdTitle), TextContent(d_MdImage),
     TextContent(d_HtmlP), TextContent(d_HtmlImg) >>

Contents == EditorJSDocuments \o GrapeJSDocuments \o JsonDocuments \o TextDocuments

\* Translation lists a caller hands to reconstruct: the fragments
\* MarkdownParser.parse and HtmlParser.parse return for the four text
\* documents, a list whose path no document has, and the empty list.
SuppliedTranslations ==
  << <<Fragment(p_line0header, t_Title, c_H1, "text"),
       Fragment(p_line1text, t_SomeText, c_para, "text")>>,
     <<Fragment(p_line0image0, t_CatAlt, c_imgalt, "alt")>>,
     <<Fragment(p_textNode0, t_Hello, c_textp, "text")>>,
     <<Fragment(p_imgAlt, t_CatAlt, c_altimg, "alt")>>,
     <<Fragment(k_ab, t_Hello, c_para, "text")>>,
     <<>> >>

\* The translation the translate step may give the i-th fragment.
TranslationFor(i) == <<"T">> \o Dec(i)

(***************************************************************************)
(* The state: the variables of the parts of the program that the           *)
(* model follows, each part described where its actions are.               *)
(***************************************************************************)

VARIABLES phase, origin, parserType, content, extracted, rebuilt

parseVars == <<phase, origin, parserType, content, extracted, rebuilt>>

VARIABLES parsers, asked, detected

registryVars == <<parsers, asked, detected>>

VARIABLES bpc, input, batchStart, batchResults, results, issued, failed,
          overtaken, run

batchVars == <<bpc, input, batchStart, batchResults, results, issued, failed,
               overtaken, run>>

VARIABLES translationMemory, dpc, call, cachedResults, attempt, lastError,
          backoffDelay, returned, requests, calls, previous, memoryBefore

deeplVars == <<translationMemory, dpc, call, cachedResults, attempt, lastError,
               backoffDelay, returned, requests, calls, previous, memoryBefore>>

deeplCallVars == <<dpc, call, cachedResults, attempt, lastError, backoffDelay,
                   returned, requests, calls, previous, memoryBefore>>

VARIABLES activeBatches, jpc, jobBatch, jobCached, jobAttempt, jobError,
          jobRequests, jobDelays, cancelled, jobMaxRetries

jobVars == <<activeBatches, jpc, jobBatch, jobCached, jobAttempt, jobError,
             jobRequests, jobDelays, cancelled, jobMaxRetries>>

\* The variables of the parts that come after the first four.
VARIABLES tpc, tcall, tcached, tattempt, tstarted

taskVars == <<tpc, tcall, tcached, tattempt, tstarted>>

VARIABLES ppc, pdoc, pdeclared, pparser, pfragments, submitted, validated, optimized

processVars == <<ppc, pdoc, pdeclared, pparser, pfragments, submitted, validated, optimized>>

VARIABLES displayed, ticks

managerVars == <<displayed, ticks>>

VARIABLES bulkPc, bulkItems, bulkTargets, bulkItem, bulkTarget, bulkResults, bulkThrown

bulkVars == <<bulkPc, bulkItems, bulkTargets, bulkItem, bulkTarget, bulkResults, bulkThrown>>

moreVars == <<jobVars, taskVars, processVars, managerVars, bulkVars>>

\* What the steps of one machine leave alone of the others.
jobOtherVars == <<parseVars, registryVars, batchVars, deeplCallVars, taskVars, processVars, managerVars, bulkVars>>
taskOtherVars == <<parseVars, registryVars, batchVars, deeplCallVars, jobVars, processVars, managerVars, bulkVars>>
processOtherVars == <<parseVars, registryVars, batchVars, deeplVars, jobVars, taskVars, managerVars, bulkVars>>
managerOtherVars == <<parseVars, registryVars, batchVars, deeplVars, jobVars, taskVars, processVars, bulkVars>>
bulkOtherVars == <<parseVars, registryVars, batchVars, deeplVars, jobVars, taskVars, processVars, managerVars>>

vars == <<parseVars, registryVars, batchVars, deeplVars, moreVars>>

(***************************************************************************)
(* Extraction, translation and rebuild of one content                       *)
(*   phase      idle -> parsed -> rebuilt                                  *)
(*   origin     "parse" when parser.parse made the list, "caller" otherwise *)
(*   extracted  the ExtractedText list, translatedText filled in by the    *)
(*              translate step                                             *)
(*   rebuilt    what parser.reconstruct returned                           *)
(***************************************************************************)

InitParse ==
  /\ phase = "idle"
  /\ origin = "parse"
  /\ parserType = "JSON"
  /\ content = JsonContent(JNull)
  /\ extracted = <<>>
  /\ rebuilt = JsonContent(JNull)

\* extractedTexts = parser.parse(content)
ParseContent(type, d) ==
  /\ phase = "idle"
  /\ phase' = "parsed"
  /\ origin' = "parse"
  /\ parserType' = type
  /\ content' = Contents[d]
  /\ extracted' = Parse(type, Contents[d])
  /\ UNCHANGED <<rebuilt, registryVars, batchVars, deeplVars, moreVars>>

\* A caller prepares its own list for parser.reconstruct(content, list).
SupplyTranslations(type, d, l) ==
  /\ phase = "idle"
  /\ phase' = "parsed"
  /\ origin' = "caller"
  /\ parserType' = type
  /\ content' = Contents[d]
  /\ extracted' = SuppliedTranslations[l]
  /\ UNCHANGED <<rebuilt, registryVars, batchVars, deeplVars, moreVars>>

\* The translate step fills in translatedText of one fragment: the empty
\* string, the original text or a translation.
SetTranslatedText(i, t) ==
  /\ phase = "parsed"
  /\ i \in 1..Len(extracted)
  /\ extracted[i].translatedText = Undefined
  /\ extracted' = [extracted EXCEPT ![i].translatedText = t]
  /\ UNCHANGED <<phase, origin, parserType, content, rebuilt>>
  /\ UNCHANGED <<registryVars, batchVars, deeplVars, moreVars>>

\* translatedContent = parser.reconstruct(content, translatedTexts)
ReconstructContent ==
  /\ phase = "parsed"
  /\ phase' = "rebuilt"
  /\ rebuilt' = Reconstruct(parserType, content, extracted)
  /\ UNCHANGED <<origin, parserType, content, extracted>>
  /\ UNCHANGED <<registryVars, batchVars, deeplVars, moreVars>>

(***************************************************************************)
(* Nodes of a JSON document: an address is the list of keys and indices    *)
(* that lead from the root to a node.                                      *)
(***************************************************************************)

KeyStep(key) == [k |-> "key", key |-> key, i |-> 0]
IndexStep(i) == [k |-> "idx", key |-> <<>>, i |-> i]

RECURSIVE ValueAt(_, _)
ValueAt(v, addr) ==
  IF addr = <<>> THEN v
  ELSE LET step == Head(addr) IN
       IF step.k = "key"
       THEN IF HasKey(v, step.key) THEN ValueAt(Prop(v, step.key), Tail(addr)) ELSE JUndef
       ELSE IF IsArr(v) /\ step.i < Len(v.items)
            THEN ValueAt(v.items[step.i + 1], Tail(addr)) ELSE JUndef

\* The addresses of the string leaves of v, addr being the address of v.
RECURSIVE StringLeaves(_, _)
RECURSIVE StringLeavesOfMembers(_, _, _)

StringLeavesOfMembers(v, addr, i) ==
  IF i > Len(ObjectKeys(v)) THEN {}
  ELSE StringLeaves(OwnValue(v, i),
                    Append(addr, IF IsArr(v) THEN IndexStep(i - 1) ELSE KeyStep(v.keys[i])))
       \cup StringLeavesOfMembers(v, addr, i + 1)

StringLeaves(v, addr) ==
  IF IsStr(v) THEN {addr}
  ELSE IF IsArr(v) \/ IsObj(v) THEN StringLeavesOfMembers(v, addr, 1)
  ELSE {}

\* The dotted path of an address: a.b[0].c
RECURSIVE PathOf(_)
PathOf(addr) ==
  IF addr = <<>> THEN <<>>
  ELSE LET init == SubSeq(addr, 1, Len(addr) - 1)
           step == addr[Len(addr)]
       IN IF step.k = "idx" THEN PathOf(init) \o <<"[">> \o Dec(step.i) \o <<"]">>
          ELSE IF init = <<>> THEN step.key
          ELSE PathOf(init) \o <<".">> \o step.key

\* The path the parser of the type gives the node: GrapeJS paths start at
\* the components list of an object document.
NodePath(type, document, addr) ==
  IF type = "GRAPE_JS" /\ IsObj(document)
  THEN IF addr # <<>> /\ addr[1] = KeyStep(s_components) THEN PathOf(Tail(addr))
       ELSE <<"-">>
  ELSE PathOf(addr)

\* The nodes a fragment of parse(document) was extracted from: the string
\* leaves with the fragment's path whose text, as it stands or stripped of
\* its markup, is the fragment's original text.
NodesOf(type, document, f) ==
  { addr \in StringLeaves(document, <<>>) :
      /\ NodePath(type, document, addr) = f.path
      /\ \/ ValueAt(document, addr).s = f.originalText
         \/ stripHtml(ValueAt(document, addr).s) = f.originalText }

(***************************************************************************)
(* ContentParserFactory: the list of parsers, auto-detection, registration *)
(*   parsers   the static list, by the type of each parser                 *)
(*   asked     the content of the last getParser call (0: none yet)        *)
(*   detected  what that call returned ("null" when no parser matched)     *)
(***************************************************************************)

\* A parser a caller registers: another JSON or HTML parser, or a parser of
\* its own whose validate accepts every content.
RegisterableParsers == {"JSON", "HTML", "PLAIN_TEXT"}

\* The most parsers the model registers.
MaxRegistered == 2

ParserValidate(type, c) == IF type = "PLAIN_TEXT" THEN TRUE ELSE Validate(type, c)

\* for (const parser of this.parsers) if (parser.validate(content)) return parser
getParser(ps, c) ==
  LET matching == {i \in 1..Len(ps) : ParserValidate(ps[i], c)}
  IN IF matching = {} THEN "null"
     ELSE ps[CHOOSE i \in matching : \A j \in matching : i <= j]

\* this.parsers.find(parser => parser.type === contentType) || null
getParserByType(ps, contentType) ==
  IF \E i \in 1..Len(ps) : ps[i] = contentType THEN contentType ELSE "null"

\* A plausible slip: the new parser is put in front of the built-in ones.
registerParserFirst(ps, parser) == <<parser>> \o ps

\* this.parsers.push(parser)
registerParser(ps, parser) == Append(ps, parser)

InitRegistry ==
  /\ parsers = <<"EDITOR_JS", "GRAPE_JS", "HTML", "JSON", "MARKDOWN">>
  /\ asked = 0
  /\ detected = "null"

RegisterParser(parser) ==
  /\ Len(parsers) < 5 + MaxRegistered
  /\ parsers' = registerParser(parsers, parser)
  /\ UNCHANGED <<asked, detected>>
  /\ UNCHANGED <<parseVars, batchVars, deeplVars, moreVars>>

GetParser(d) ==
  /\ asked' = d
  /\ detected' = getParser(parsers, Contents[d])
  /\ UNCHANGED <<parsers, parseVars, batchVars, deeplVars, moreVars>>

\* The content is JSON with a blocks array.
HasBlocksArray(c) ==
  c.json /\ IsObj(c.value) /\ HasKey(c.value, s_blocks) /\ IsArr(Prop(c.value, s_blocks))

\* The content is JSON that is a list or has a components list.
IsListOrHasComponentsList(c) ==
  /\ c.json
  /\ \/ IsArr(c.value)
     \/ IsObj(c.value) /\ HasKey(c.value, s_components)
          /\ IsArr(Prop(c.value, s_components))

\* C5: getParser returns the Editor.js parser for every JSON content with a
\* blocks array, otherwise the GrapeJS parser for every JSON content that is a
\* list or has a components list, and never the generic JSON parser for
\* either, whatever parsers registerParser has added.
C5_StructureSpecificFirst ==
  asked # 0 =>
    LET c == Contents[asked] IN
    /\ HasBlocksArray(c) => detected = "EDITOR_JS"
    /\ (~HasBlocksArray(c) /\ IsListOrHasComponentsList(c)) => detected = "GRAPE_JS"
    /\ (EditorJSValidate(c) \/ GrapeJSValidate(c)) => detected # "JSON"

\* C5 happens: after another JSON parser was registered, a GrapeJS document
\* without a blocks array was detected as GrapeJS.
C5_Witness ==
  /\ asked # 0
  /\ \E i \in 6..Len(parsers) : parsers[i] = "JSON"
  /\ ~HasBlocksArray(Contents[asked])
  /\ IsListOrHasComponentsList(Contents[asked])
  /\ detected = "GRAPE_JS"

\* C28: for every content that parses as JSON, getParser returns the
\* Editor.js, the GrapeJS or the generic JSON parser, never the HTML or the
\* Markdown parser, also when a string value of the JSON holds HTML tags.
C28_JsonStaysInJsonFamily ==
  (asked # 0 /\ Contents[asked].json) => detected \in {"EDITOR_JS", "GRAPE_JS", "JSON"}

(***************************************************************************)
(* DeepLService: the translation memory                                    *)
(***************************************************************************)

\* str.charCodeAt(i), for the characters of the texts that are translated.
CharCode(c) ==
  CASE IsIn(c, LowerCase) -> 96 + (CHOOSE i \in 1..Len(LowerCase) : LowerCase[i] = c)
    [] IsIn(c, UpperCase) -> 64 + (CHOOSE i \in 1..Len(UpperCase) : UpperCase[i] = c)
    [] IsIn(c, Digits) -> 47 + (CHOOSE i \in 1..Len(Digits) : Digits[i] = c)
    [] c = " " -> 32
    [] c = "[" -> 91
    [] c = "]" -> 93

\* A 32-bit integer as its two 16-bit halves, so that no step leaves the
\* range of the numbers of the model checker.
Half == 65536

\* hash = ((hash << 5) - hash) + char; hash = hash & hash
\* which is 31 * hash + char modulo 2^32.
HashStep(h, char) ==
  LET lo == 31 * h.lo + char
      hi == 31 * h.hi + (lo \div Half)
  IN [hi |-> hi % Half, lo |-> lo % Half]

RECURSIVE HashFold(_, _, _)
HashFold(h, str, i) ==
  IF i > Len(str) THEN h
  ELSE CHOOSE r \in {HashFold(next, str, i + 1) :
                       next \in {HashStep(h, CharCode(str[i]))}} : TRUE

\* Math.abs of the signed reading of the 32 bits (below 2^31 for the texts
\* of the model).
AbsInt32(h) ==
  IF h.hi < Half \div 2 THEN h.hi * Half + h.lo
  ELSE IF h.lo = 0 THEN (Half - h.hi) * Half
  ELSE (Half - 1 - h.hi) * Half + (Half - h.lo)

Base36Digits == Digits \o LowerCase

\* Number.prototype.toString(36)
RECURSIVE ToString36(_)
ToString36(n) ==
  IF n < 36 THEN <<Base36Digits[n + 1]>>
  ELSE ToString36(n \div 36) \o <<Base36Digits[(n % 36) + 1]>>

simpleHash(str) ==
  CHOOSE r \in {ToString36(AbsInt32(hash)) :
                  hash \in {HashFold([hi |-> 0, lo |-> 0], s, 1) : s \in {str}}} : TRUE

t_Bye == <<"B","y","e">>
t_HelloPadded == <<" ","H","E","L","L","O"," ">>

\* The k-th fragment of a document of the orchestrator: what JsonParser.parse
\* returns for the k-th string of a JSON list.
BatchText(k) == <<"t","e","x","t"," ">> \o Dec(k)

\* The longest fragment list the model translates.
MaxFragments == 11

\* this.simpleHash(text.trim().toLowerCase())
textHash(text) == simpleHash(ToLowerCase(Trim(text)))

\* textHash of the texts the model translates, computed once.
TextHashes ==
  [text \in {t_Hello, t_HelloPadded, t_Bye} \cup {BatchText(k) : k \in 1..MaxFragments} |->
     textHash(text)]

\* `${sourceLanguage}-${targetLanguage}-${textHash}`
getMemoryKey(text, sourceLanguage, targetLanguage) ==
  sourceLanguage \o <<"-">> \o targetLanguage \o <<"-">>
    \o (IF text \in DOMAIN TextHashes THEN TextHashes[text] ELSE textHash(text))

\* The memory is a Map in insertion order: a sequence of entries, each under
\* its id.
MemoryHas(memory, key) == \E i \in 1..Len(memory) : memory[i].id = key

MemoryIndex(memory, key) == CHOOSE i \in 1..Len(memory) : memory[i].id = key

MemoryGet(memory, key) == memory[MemoryIndex(memory, key)]

\* this.translationMemory.set(key, entry)
MemorySet(memory, key, entry) ==
  IF MemoryHas(memory, key)
  THEN [memory EXCEPT ![MemoryIndex(memory, key)] = entry]
  ELSE Append(memory, entry)

\* A plausible slip: the entry records 'auto' whatever language its key was
\* built from.
MemoryEntryAuto(key, sourceText, translatedText, sourceLanguage, targetLanguage) ==
  [id |-> key, sourceText |-> sourceText, translatedText |-> translatedText,
   sourceLanguage |-> <<"a","u","t","o">>, targetLanguage |-> targetLanguage,
   usageCount |-> 1]

\* The entry storeInTranslationMemory builds.
MemoryEntry(key, sourceText, translatedText, sourceLanguage, targetLanguage) ==
  [id |-> key, sourceText |-> sourceText, translatedText |-> translatedText,
   sourceLanguage |-> sourceLanguage, targetLanguage |-> targetLanguage,
   usageCount |-> 1]

\* The absent cached result (null).
Null == <<"null">>

\* checkTranslationMemory: acc.memory is the memory (usageCount++ on each
\* hit), acc.cached the list of results so far.
RECURSIVE checkTranslationMemory(_, _, _, _, _)
checkTranslationMemory(acc, texts, i, sourceLanguage, targetLanguage) ==
  IF i > Len(texts) THEN acc
  ELSE CHOOSE r \in
         {checkTranslationMemory(next, texts, i + 1, sourceLanguage, targetLanguage) :
            next \in
              {IF MemoryHas(acc.memory, key)
               THEN [memory |-> [acc.memory EXCEPT
                                   ![MemoryIndex(acc.memory, key)].usageCount = @ + 1],
                     cached |-> Append(acc.cached,
                                       MemoryGet(acc.memory, key).translatedText)]
               ELSE [acc EXCEPT !.cached = Append(@, Null)] :
                 key \in {getMemoryKey(texts[i], sourceLanguage, targetLanguage)}}} : TRUE

\* storeInTranslationMemory
RECURSIVE storeInTranslationMemory(_, _, _, _, _, _)
storeInTranslationMemory(memory, sourceTexts, translatedTexts, i, sourceLanguage, targetLanguage) ==
  IF i > Len(sourceTexts) THEN memory
  ELSE CHOOSE r \in
         {storeInTranslationMemory(next, sourceTexts, translatedTexts, i + 1,
                                   sourceLanguage, targetLanguage) :
            next \in
              {MemorySet(memory, key,
                         MemoryEntry(key, sourceTexts[i], translatedTexts[i],
                                     sourceLanguage, targetLanguage)) :
                 key \in {getMemoryKey(sourceTexts[i], sourceLanguage, targetLanguage)}}} : TRUE

(***************************************************************************)
(* DeepLService.translateText and executeWithRetry                         *)
(***************************************************************************)

s_auto == <<"a","u","t","o">>
s_en == <<"e","n">>
s_es == <<"e","s">>
s_fr == <<"f","r">>
s_EN == <<"E","N">>

\* DeepLConfig.maxRetries and retryDelay, as the settings form sets them.
maxRetries == 3
retryDelay == 1000

\* The most translateText calls of one behaviour.
MaxCalls == 2

\* The arguments of the translateText calls of the model; an omitted
\* sourceLanguage is Undefined.
TextLists == << <<t_Hello>>, <<t_HelloPadded>>, <<t_Hello, t_Bye>> >>
TargetLanguages == {s_es, s_fr}
SourceLanguages == {Undefined, s_en}

\* detected_source_language of the first translation of a response, Undefined
\* for a response without one.
DetectedLanguages == {s_EN, Undefined}

\* The text the backend answers for a text: some translation of it.
DeepLTranslation(text, targetLanguage) == targetLanguage \o <<":">> \o text

\* The failures of a backend request: an HTTP status of the response, a
\* request that timed out (ECONNABORTED) or one that got no response.
TransientKinds == {"429", "503", "ECONNABORTED", "ERR_NETWORK"}
PermanentKinds == {"400", "401", "403", "413", "456"}
ErrorKinds == TransientKinds \cup PermanentKinds \cup {"500"}

\* handleApiError: the message of the Error the response interceptor rejects with.
handleApiError(kind) ==
  CASE kind = "400" -> "Bad Request: Invalid parameters"
    [] kind = "401" -> "Authentication failed: Invalid API key"
    [] kind = "403" -> "Authorization failed: API key lacks permissions"
    [] kind = "413" -> "Request too large: Text exceeds maximum length"
    [] kind = "429" -> "Rate limit exceeded: Too many requests"
    [] kind = "456" -> "Quota exceeded: Character limit reached"
    [] kind = "503" -> "Service unavailable: DeepL API is temporarily down"
    [] kind = "ECONNABORTED" -> "Request timeout: DeepL API did not respond in time"
    [] kind = "ERR_NETWORK" -> "Network error: Network Error"
    [] OTHER -> "API Error 500: Unknown error"

\* sourceLanguage || fallback
OrElse(language, fallback) == IF TruthyText(language) THEN language ELSE fallback

\* !cachedResults[index]
Uncached(result) == result = Null \/ result = <<>>

\* texts.filter((_, index) => !cachedResults[index])
RECURSIVE uncachedTexts(_, _, _)
uncachedTexts(texts, cached, i) ==
  IF i > Len(texts) THEN <<>>
  ELSE (IF Uncached(cached[i]) THEN <<texts[i]>> ELSE <<>>)
         \o uncachedTexts(texts, cached, i + 1)

\* The merge loop of translateText: cached results where there are some, the
\* new translations in their order elsewhere.
RECURSIVE MergeResults(_, _, _, _)
MergeResults(cached, translations, i, uncachedIndex) ==
  IF i > Len(cached) THEN <<>>
  ELSE IF ~Uncached(cached[i])
       THEN <<cached[i]>> \o MergeResults(cached, translations, i + 1, uncachedIndex)
       ELSE <<translations[uncachedIndex]>>
              \o MergeResults(cached, translations, i + 1, uncachedIndex + 1)

\* No call, as the value of a record of a call.
NoCall == [texts |-> <<>>, targetLanguage |-> <<>>, sourceLanguage |-> <<>>]

(***************************************************************************)
(*   translationMemory  the Map of the service                             *)
(*   dpc            idle, request (a POST /v2/translate is in flight),     *)
(*                  backoff (the delay before a retry), returned, threw    *)
(*   call           the arguments of the translateText call in progress    *)
(*   cachedResults  what checkTranslationMemory returned for it            *)
(*   attempt        the loop counter of executeWithRetry                   *)
(*   lastError      the message of the last error caught                   *)
(*   backoffDelay   the milliseconds of the last delay awaited             *)
(*   returned       the result of the call                                 *)
(*   requests       the backend requests the call has issued               *)
(*   calls          the calls started                                      *)
(*   previous       the arguments of the call before, when it returned     *)
(*   memoryBefore   the memory when the call started                       *)
(***************************************************************************)

BatchFragment(k) ==
  Fragment(<<"[">> \o Dec(k - 1) \o <<"]">>, BatchText(k),
           <<"J","S","O","N"," ","a","r","r","a","y"," ","i","t","e","m">>, "text")

\* loadTranslationMemory: what the constructor finds in localStorage, the
\* entry of an earlier translation of the first fragment's text.
StoredMemory ==
  <<MemoryEntry(getMemoryKey(BatchText(1), s_en, s_es), BatchText(1),
                DeepLTranslation(BatchText(1), s_es), s_en, s_es)>>

InitDeepL ==
  /\ translationMemory = StoredMemory
  /\ dpc = "idle"
  /\ call = NoCall
  /\ cachedResults = <<>>
  /\ attempt = 0
  /\ lastError = ""
  /\ backoffDelay = 0
  /\ returned = <<>>
  /\ requests = 0
  /\ calls = 0
  /\ previous = NoCall
  /\ memoryBefore = <<>>

\* translateText(texts, targetLanguage, sourceLanguage), up to the request
\* it awaits or to its return when the memory has every text.
TranslateText(texts, targetLanguage, sourceLanguage) ==
  /\ dpc = "idle"
  /\ calls < MaxCalls
  /\ LET checked == checkTranslationMemory(
                      [memory |-> translationMemory, cached |-> <<>>], texts, 1,
                      OrElse(sourceLanguage, s_auto), targetLanguage)
     IN /\ translationMemory' = checked.memory
        /\ cachedResults' = checked.cached
        /\ IF uncachedTexts(texts, checked.cached, 1) = <<>>
           THEN /\ dpc' = "returned"
                /\ returned' = checked.cached
                /\ requests' = 0
           ELSE /\ dpc' = "request"
                /\ returned' = <<>>
                /\ requests' = 1
  /\ call' = [texts |-> texts, targetLanguage |-> targetLanguage,
              sourceLanguage |-> sourceLanguage]
  /\ attempt' = 0
  /\ lastError' = ""
  /\ backoffDelay' = 0
  /\ calls' = calls + 1
  /\ memoryBefore' = translationMemory
  /\ UNCHANGED <<previous, parseVars, registryVars, batchVars, moreVars>>

\* The request succeeds: executeWithRetry returns the response, translateText
\* stores the translations, merges them with the cached results and returns.
RequestSucceeds(detectedLanguage) ==
  /\ dpc = "request"
  /\ LET uncached == uncachedTexts(call.texts, cachedResults, 1)
         translations == [i \in 1..Len(uncached) |->
                            DeepLTranslation(uncached[i], call.targetLanguage)]
     IN /\ translationMemory' =
             storeInTranslationMemory(
               translationMemory, uncached, translations, 1,
               OrElse(call.sourceLanguage, OrElse(detectedLanguage, s_auto)),
               call.targetLanguage)
        /\ returned' = MergeResults(cachedResults, translations, 1, 1)
  /\ dpc' = "returned"
  /\ UNCHANGED <<call, cachedResults, attempt, lastError, backoffDelay, requests,
                 calls, previous, memoryBefore>>
  /\ UNCHANGED <<parseVars, registryVars, batchVars, moreVars>>

\* The request fails: the catch block of executeWithRetry keeps the error and
\* awaits the delay before the next attempt, or the loop ends and the error
\* is thrown (translateText logs it and throws it again).
RequestFails(kind) ==
  /\ dpc = "request"
  /\ lastError' = handleApiError(kind)
  /\ IF attempt < maxRetries
     THEN /\ dpc' = "backoff"
          /\ backoffDelay' = retryDelay * (2 ^ attempt)
     ELSE /\ dpc' = "threw"
          /\ UNCHANGED backoffDelay
  /\ UNCHANGED <<translationMemory, call, cachedResults, attempt, returned, requests,
                 calls, previous, memoryBefore>>
  /\ UNCHANGED <<parseVars, registryVars, batchVars, moreVars>>

\* The delay is over: the next iteration of the loop issues the request again.
RetryRequest ==
  /\ dpc = "backoff"
  /\ dpc' = "request"
  /\ attempt' = attempt + 1
  /\ requests' = requests + 1
  /\ UNCHANGED <<translationMemory, call, cachedResults, lastError, backoffDelay,
                 returned, calls, previous, memoryBefore>>
  /\ UNCHANGED <<parseVars, registryVars, batchVars, moreVars>>

\* The caller has the result or the error of the call.
CallSettles ==
  /\ dpc \in {"returned", "threw"}
  /\ dpc' = "idle"
  /\ previous' = IF dpc = "returned" THEN call ELSE NoCall
  /\ UNCHANGED <<translationMemory, call, cachedResults, attempt, lastError,
                 backoffDelay, returned, requests, calls, memoryBefore>>
  /\ UNCHANGED <<parseVars, registryVars, batchVars, moreVars>>

\* clearTranslationMemory
ClearTranslationMemory ==
  /\ dpc = "idle"
  /\ translationMemory # <<>>
  /\ translationMemory' = <<>>
  /\ previous' = NoCall
  /\ UNCHANGED <<dpc, call, cachedResults, attempt, lastError, backoffDelay,
                 returned, requests, calls, memoryBefore>>
  /\ UNCHANGED <<parseVars, registryVars, batchVars, moreVars>>

\* Every entry of the memory old is in the memory new under its key, with a
\* usageCount that is not smaller and with its translatedText.
MemoryPreserved(old, new) ==
  \A i \in 1..Len(old) :
    /\ MemoryHas(new, old[i].id)
    /\ MemoryGet(new, old[i].id).usageCount >= old[i].usageCount
    /\ MemoryGet(new, old[i].id).translatedText = old[i].translatedText

\* C29: but for clearTranslationMemory, no step of a translateText call
\* removes a key of the translation memory, lowers the usageCount of an
\* entry or changes its translatedText: a store never resets an entry.
C29_EntryNeverReset ==
  [][translationMemory' = <<>> \/ MemoryPreserved(translationMemory, translationMemory')]_vars

\* The texts of the call that share the memory key of its i-th text.
SameKeyTexts(i) ==
  {j \in 1..Len(call.texts) :
     getMemoryKey(call.texts[j], s_auto, s_auto)
       = getMemoryKey(call.texts[i], s_auto, s_auto)}

\* C8: a translateText call with the arguments of the call before it, source
\* language omitted or not, issues no backend request: every text is
\* answered from the translation memory, whose entry gets its usageCount
\* incremented by one for each use.
C8_CacheConvergence ==
  (dpc = "returned" /\ previous = call) =>
    /\ requests = 0
    /\ \A i \in 1..Len(call.texts) :
         LET key == getMemoryKey(call.texts[i], OrElse(call.sourceLanguage, s_auto),
                                 call.targetLanguage)
         IN /\ MemoryHas(memoryBefore, key)
            /\ MemoryHas(translationMemory, key)
            /\ MemoryGet(translationMemory, key).usageCount
                 = MemoryGet(memoryBefore, key).usageCount + Cardinality(SameKeyTexts(i))

\* C10: a request is retried only after a transient failure (429, 503, a
\* timeout, a network error); after 400, 401, 403, 413 or 456 no delay is
\* awaited and the error is thrown by the attempt that got it.
C10_OnlyTransientRetried ==
  LET permanent == {handleApiError(kind) : kind \in PermanentKinds}
      transient == {handleApiError(kind) : kind \in TransientKinds}
  IN /\ dpc = "backoff" => lastError \in transient
     /\ (dpc = "threw" /\ lastError \in permanent) => attempt = 0

(***************************************************************************)
(* EnhancedTranslationService.translateExtractedTexts                      *)
(***************************************************************************)

\* const batchSize = 10
batchSize == 10

\* The longest fragment list the model translates a second time.
MaxRerun == 2

\* The languages of the document translations of the model.
BatchSourceLanguage == s_en
BatchTargetLanguage == s_es

\* translationService.createTranslation: translatedText of the record the
\* backend answers with for a source text.
BackendTranslation(text) == <<"[">> \o BatchTargetLanguage \o <<"]">> \o text

\* The result slot of a call that has not settled.
Pending ==
  [id |-> <<>>, originalText |-> <<>>, translatedText |-> Undefined,
   path |-> <<>>, context |-> <<>>, type |-> "pending"]

\* return { ...extracted, translatedText: translation.translatedText }
TranslatedResult(fragment) ==
  [fragment EXCEPT !.translatedText = BackendTranslation(fragment.originalText)]

\* A plausible slip: the catch block returns the fragment with no text.
FailedResultEmpty(fragment) == [fragment EXCEPT !.translatedText = <<>>]

\* catch: return { ...extracted, translatedText: extracted.originalText }
FailedResult(fragment) == [fragment EXCEPT !.translatedText = fragment.originalText]

\* A plausible slip: the results of a batch are put in front of the others.
PushBatchResultsFirst(all, batch) == batch \o all

\* results.push(...batchResults)
PushBatchResults(all, batch) == all \o batch

\* A plausible slip: the slice has no upper end.
BatchPositionsAll(fragments, i) == {k \in 1..Len(fragments) : i < k}

\* extractedTexts.slice(i, i + batchSize), as the positions it holds
BatchPositions(fragments, i) ==
  {k \in 1..Len(fragments) : i < k /\ k <= i + batchSize}

(***************************************************************************)
(*   bpc           idle, awaiting (Promise.all of the batch), delay, done  *)
(*   input         extractedTexts                                          *)
(*   batchStart    the loop variable i                                     *)
(*   batchResults  the result of each call of the batch, by position       *)
(*   results       the list the function returns                           *)
(*   issued        the fragments a backend call was issued for in this run *)
(*   failed        the fragments whose backend call threw in this run      *)
(*   overtaken     a call settled before one issued earlier in its batch   *)
(*   run           the translations of the document started so far         *)
(***************************************************************************)

InitBatch ==
  /\ bpc = "idle"
  /\ input = <<>>
  /\ batchStart = 0
  /\ batchResults = <<>>
  /\ results = <<>>
  /\ issued = {}
  /\ failed = {}
  /\ overtaken = FALSE
  /\ run = 0

\* The loop of translateExtractedTexts from its test to the await of
\* Promise.all: every call of the batch at i is issued; past the end of the
\* list the function returns.
StartBatch(fragments, i, soFar) ==
  IF i < Len(fragments)
  THEN /\ bpc' = "awaiting"
       /\ batchStart' = i
       /\ batchResults' = [k \in 1..Cardinality(BatchPositions(fragments, i)) |-> Pending]
       /\ issued' = soFar \cup BatchPositions(fragments, i)
  ELSE /\ bpc' = "done"
       /\ batchStart' = i
       /\ batchResults' = <<>>
       /\ issued' = soFar

\* translateExtractedTexts(extractedTexts, sourceLanguage, targetLanguage)
TranslateExtractedTexts(n) ==
  /\ bpc = "idle"
  /\ run = 0
  /\ input' = [k \in 1..n |-> BatchFragment(k)]
  /\ results' = <<>>
  /\ failed' = {}
  /\ run' = 1
  /\ StartBatch([k \in 1..n |-> BatchFragment(k)], 0, {})
  /\ UNCHANGED <<overtaken, parseVars, registryVars, deeplVars, moreVars>>

\* The backend answers the call of the fragment at position k of the batch.
CreateTranslationSucceeds(k) ==
  /\ bpc = "awaiting"
  /\ k \in 1..Len(batchResults)
  /\ batchResults[k] = Pending
  /\ batchResults' = [batchResults EXCEPT ![k] = TranslatedResult(input[batchStart + k])]
  /\ overtaken' = (overtaken \/ \E j \in 1..(k - 1) : batchResults[j] = Pending)
  /\ UNCHANGED <<bpc, input, batchStart, results, issued, failed, run>>
  /\ UNCHANGED <<parseVars, registryVars, deeplVars, moreVars>>

\* The call of the fragment at position k of the batch throws.
CreateTranslationFails(k) ==
  /\ bpc = "awaiting"
  /\ k \in 1..Len(batchResults)
  /\ batchResults[k] = Pending
  /\ batchResults' = [batchResults EXCEPT ![k] = FailedResult(input[batchStart + k])]
  /\ failed' = failed \cup {batchStart + k}
  /\ overtaken' = (overtaken \/ \E j \in 1..(k - 1) : batchResults[j] = Pending)
  /\ UNCHANGED <<bpc, input, batchStart, results, issued, run>>
  /\ UNCHANGED <<parseVars, registryVars, deeplVars, moreVars>>

\* Promise.all resolves: the results are pushed, and the delay is awaited
\* when fragments remain.
BatchSettles ==
  /\ bpc = "awaiting"
  /\ \A k \in 1..Len(batchResults) : batchResults[k] # Pending
  /\ results' = PushBatchResults(results, batchResults)
  /\ IF batchStart + batchSize < Len(input)
     THEN /\ bpc' = "delay"
          /\ UNCHANGED <<batchStart, batchResults, issued>>
     ELSE StartBatch(input, batchStart + batchSize, issued)
  /\ UNCHANGED <<input, failed, overtaken, run>>
  /\ UNCHANGED <<parseVars, registryVars, deeplVars, moreVars>>

\* The delay is over: the next iteration of the loop.
DelayElapses ==
  /\ bpc = "delay"
  /\ StartBatch(input, batchStart + batchSize, issued)
  /\ UNCHANGED <<input, results, failed, overtaken, run>>
  /\ UNCHANGED <<parseVars, registryVars, deeplVars, moreVars>>

\* The same document is translated again after a run that translated every
\* fragment.
Rerun ==
  /\ bpc = "done"
  /\ run = 1
  /\ failed = {}
  /\ Len(input) \in 1..MaxRerun
  /\ results' = <<>>
  /\ run' = 2
  /\ StartBatch(input, 0, {})
  /\ UNCHANGED <<input, failed, overtaken>>
  /\ UNCHANGED <<parseVars, registryVars, deeplVars, moreVars>>

\* C6: when translateExtractedTexts returns, whatever the order in which the
\* backend calls settled, its list is as long as the input and its k-th
\* element has the id, path, originalText, context and type of the k-th
\* input fragment and the translation produced for that fragment (or the
\* fragment's own text when its call threw).
C6_SameLengthAndOrder ==
  bpc = "done" =>
    /\ Len(results) = Len(input)
    /\ \A k \in 1..Len(input) :
         /\ k <= Len(results)
         /\ results[k].id = input[k].id
         /\ results[k].path = input[k].path
         /\ results[k].originalText = input[k].originalText
         /\ results[k].context = input[k].context
         /\ results[k].type = input[k].type
         /\ results[k].translatedText
              \in {BackendTranslation(input[k].originalText), input[k].originalText}

\* C6 happens: a list of more than one batch was translated, and a call
\* settled before a call issued earlier in its batch.
C6_Witness ==
  /\ bpc = "done"
  /\ overtaken
  /\ Len(input) > batchSize
  /\ failed = {}

\* C7: the function returns (it has no state in which it raised) and, when
\* it does, every fragment whose backend call threw has its originalText as
\* translatedText and every other fragment, of the same batch or a later
\* one, has its backend translation.
C7_FaultIsolation ==
  /\ bpc \in {"idle", "awaiting", "delay", "done"}
  /\ bpc = "done" =>
       \A k \in 1..Len(input) :
         /\ k <= Len(results)
         /\ k \in failed => results[k].translatedText = input[k].originalText
         /\ k \notin failed =>
              results[k].translatedText = BackendTranslation(input[k].originalText)

\* C7 happens: in a list of more than one batch, a call of the first batch
\* threw while another call of that batch and a call of the next batch did
\* not.
C7_Witness ==
  /\ bpc = "done"
  /\ Len(input) > batchSize
  /\ \E k \in failed : k <= batchSize
  /\ \E k \in 1..batchSize : k \notin failed
  /\ (batchSize + 1) \notin failed

\* The per-fragment backend calls that have not settled.
PendingCalls == {k \in 1..Len(batchResults) : batchResults[k] = Pending}

\* C21: at no time are more than batchSize backend calls pending; while the
\* calls of a batch are awaited every earlier batch has settled and no
\* fragment of a later batch has a call; the calls of the next batch are
\* issued only by the step that ends the delay, which is awaited only after
\* every call of the batch settled; and no delay is awaited after the last
\* batch.
C21_BatchPacing ==
  /\ [](/\ Cardinality(PendingCalls) <= batchSize
        /\ bpc = "awaiting" =>
             /\ Len(results) = batchStart
             /\ \A k \in issued : k <= batchStart + batchSize
        /\ bpc = "delay" =>
             /\ PendingCalls = {}
             /\ Len(results) = batchStart + batchSize
             /\ batchStart + batchSize < Len(input)
             /\ \A k \in issued : k <= batchStart + batchSize)
  /\ [][(bpc' = "awaiting" /\ batchStart' > batchStart) => bpc = "delay"]_vars
  /\ [][bpc' = "delay" => (bpc = "awaiting" /\ PendingCalls = {})]_vars

\* C21 happens: the calls of the second batch are pending, those of the first
\* having settled, and after them no fragment remains.
C21_Witness ==
  /\ bpc = "awaiting"
  /\ batchStart = batchSize
  /\ Len(results) = batchSize
  /\ PendingCalls # {}
  /\ batchStart + batchSize >= Len(input)

\* The translation memory has an entry for the text of the k-th fragment and
\* the language pair of the document translation.
HasMemoryEntry(k) ==
  MemoryHas(translationMemory,
            getMemoryKey(input[k].originalText, BatchSourceLanguage, BatchTargetLanguage))

\* C9: translateExtractedTexts issues no backend call for a fragment that has
\* an entry in the translation memory, every fragment it translated has an
\* entry when it returns, and a second translation of the same document
\* issues no backend call.
C9_MemoryBeforeBackend ==
  /\ \A k \in issued : ~HasMemoryEntry(k)
  /\ bpc = "done" => \A k \in 1..Len(input) : k \notin failed => HasMemoryEntry(k)
  /\ run = 2 => issued = {}

(***************************************************************************)
(* Claims on the rebuild of a content                                      *)
(***************************************************************************)

\* translatedText of every fragment is its originalText.
IdentityTranslation ==
  \A i \in 1..Len(extracted) : extracted[i].translatedText = extracted[i].originalText

\* C1: for a document of the parser's format, reconstruct with the fragments
\* of parse, each translated to its own original text, returns the document
\* (JSON documents compared by their value, texts as strings), markup in
\* the extracted values included.
C1_RoundTripIdentity ==
  ( /\ phase = "rebuilt"
    /\ origin = "parse" \/ parserType \in TextTypes
    /\ Validate(parserType, content)
    /\ IdentityTranslation )
  => rebuilt = content

\* C2: for the Editor.js, GrapeJS and JSON parsers, every fragment of parse
\* that has a non-empty translatedText has a node it was extracted from, and
\* the rebuilt document holds that translatedText at each such node.
C2_TranslationAtNode ==
  (phase = "rebuilt" /\ origin = "parse" /\ content.json) =>
    \A i \in 1..Len(extracted) :
      TruthyText(extracted[i].translatedText) =>
        /\ NodesOf(parserType, content.value, extracted[i]) # {}
        /\ \A addr \in NodesOf(parserType, content.value, extracted[i]) :
             /\ rebuilt.json
             /\ ValueAt(rebuilt.value, addr) = JStr(extracted[i].translatedText)

\* C3: a fragment whose translatedText is unset or empty leaves the value at
\* its node as it is in the original document; for the HTML and Markdown
\* parsers, a list with no translated fragment leaves the text as it is.
C3_UntranslatedKept ==
  /\ (phase = "rebuilt" /\ origin = "parse" /\ content.json) =>
       \A i \in 1..Len(extracted) :
         ~TruthyText(extracted[i].translatedText) =>
           \A addr \in NodesOf(parserType, content.value, extracted[i]) :
             /\ rebuilt.json
             /\ ValueAt(rebuilt.value, addr) = ValueAt(content.value, addr)
  /\ ( /\ phase = "rebuilt"
       /\ parserType \in TextTypes
       /\ \A i \in 1..Len(extracted) : ~TruthyText(extracted[i].translatedText) )
     => rebuilt = content

\* C4: reconstruct of the Editor.js, GrapeJS and JSON parsers returns
\* originalContent for every content that is not of the parser's format
\* (text that is not JSON, JSON null, no blocks array, components that is
\* not a list), whatever the list of fragments.
C4_OriginalWhenNotReparsed ==
  ( /\ phase = "rebuilt"
    /\ parserType \in StructuralTypes
    /\ ~Validate(parserType, content) )
  => rebuilt = content

(***************************************************************************)
(* TranslationApiService.requestTranslation, cancelTranslation and         *)
(* DeepLService.translateBatch, for one batch id                           *)
(*                                                                         *)
(*   activeBatches  the entry of the batch id in the Map of the service    *)
(*   jpc            none (not requested), request (a POST is in flight),   *)
(*                  backoff (the delay of executeWithRetry), batchBackoff  *)
(*                  (the delay of translateBatch), completed, rejected     *)
(*   jobBatch       the batch argument of the running translateBatch       *)
(*   jobCached      what checkTranslationMemory returned to translateText  *)
(*   jobAttempt     the loop counter of executeWithRetry                   *)
(*   jobError       the message of the last error caught                   *)
(*   jobRequests    the backend requests issued for the batch              *)
(*   jobDelays      the delays awaited for the batch, in order             *)
(*   cancelled      cancelTranslation has marked the batch                 *)
(*   jobMaxRetries  config.maxRetries of the service                       *)
(***************************************************************************)

\* The texts and languages of the batches of the model.
JobTextLists == << <<BatchText(1)>>, <<BatchText(2)>>, <<BatchText(1), BatchText(2)>> >>
JobSourceLanguage == s_en
JobTargetLanguage == s_es

\* The failures of the requests of a batch: one that is rate limited, one
\* that is refused and one that timed out.
JobErrorKinds == {"429", "401", "ECONNABORTED"}

\* A TranslationBatch; results and errors are empty when the field is absent.
TranslationBatch(texts, status, retryCount) ==
  [texts |-> texts, status |-> status, results |-> <<>>, errors |-> <<>>,
   retryCount |-> retryCount]

\* No entry for the batch id.
NoBatch == TranslationBatch(<<>>, "NONE", 0)

\* { ...batch, status: IN_PROGRESS }
InProgressBatch(b) == [b EXCEPT !.status = "IN_PROGRESS"]

\* { ...batch, status: COMPLETED, results, completedAt }
CompletedBatch(b, translated) == [b EXCEPT !.status = "COMPLETED", !.results = translated]

\* A plausible slip: the failed batch is stored without the error message.
FailedBatchNoErrors(b, message) ==
  [b EXCEPT !.status = "FAILED", !.retryCount = b.retryCount + 1]

\* { ...batch, status: FAILED, errors: [error.message], retryCount: batch.retryCount + 1 }
FailedBatch(b, message) ==
  [b EXCEPT !.status = "FAILED", !.errors = <<message>>,
            !.retryCount = b.retryCount + 1]

\* batch.status = FAILED; batch.errors = ['Translation cancelled by user']
CancelledBatch(b) ==
  [b EXCEPT !.status = "FAILED", !.errors = <<"Translation cancelled by user">>]

\* What getTranslationStatus reports of the batch.
getTranslationStatus ==
  [status |-> activeBatches.status, results |-> activeBatches.results,
   errors |-> activeBatches.errors]

InitJob ==
  /\ activeBatches = NoBatch
  /\ jpc = "none"
  /\ jobBatch = NoBatch
  /\ jobCached = <<>>
  /\ jobAttempt = 0
  /\ jobError = ""
  /\ jobRequests = 0
  /\ jobDelays = <<>>
  /\ cancelled = FALSE
  /\ jobMaxRetries = maxRetries

\* translateBatch(b) up to the first backend request of translateText, or
\* to its return when the memory has every text.
TranslateBatch(b) ==
  \E checked \in {checkTranslationMemory(
                     [memory |-> translationMemory, cached |-> <<>>], b.texts, 1,
                     OrElse(JobSourceLanguage, s_auto), JobTargetLanguage)} :
     /\ translationMemory' = checked.memory
     /\ jobBatch' = b
     /\ jobCached' = checked.cached
     /\ jobAttempt' = 0
     /\ IF uncachedTexts(b.texts, checked.cached, 1) = <<>>
        THEN /\ activeBatches' = CompletedBatch(b, checked.cached)
             /\ jpc' = "completed"
             /\ UNCHANGED jobRequests
        ELSE /\ activeBatches' = InProgressBatch(b)
             /\ jpc' = "request"
             /\ jobRequests' = jobRequests + 1

\* requestTranslation: the first call creates the service with the stored
\* configuration, then processTranslationBatch starts translateBatch with a
\* PENDING batch of retryCount 0.
RequestTranslation(l, configured) ==
  /\ jpc = "none"
  /\ jobMaxRetries' = configured
  /\ TranslateBatch(TranslationBatch(JobTextLists[l], "PENDING", 0))
  /\ UNCHANGED <<jobError, jobDelays, cancelled>>
  /\ UNCHANGED jobOtherVars

\* The request succeeds: translateText stores and merges the translations,
\* translateBatch puts the completed batch in the Map.
JobRequestSucceeds ==
  /\ jpc = "request"
  /\ \E uncached \in {uncachedTexts(jobBatch.texts, jobCached, 1)} :
     \E translations \in {[i \in 1..Len(uncached) |->
                             DeepLTranslation(uncached[i], JobTargetLanguage)]} :
        /\ translationMemory' =
             storeInTranslationMemory(translationMemory, uncached, translations, 1,
                                      JobSourceLanguage, JobTargetLanguage)
        /\ activeBatches' =
             CompletedBatch(jobBatch, MergeResults(jobCached, translations, 1, 1))
  /\ jpc' = "completed"
  /\ UNCHANGED <<jobBatch, jobCached, jobAttempt, jobError, jobRequests, jobDelays,
                 cancelled, jobMaxRetries>>
  /\ UNCHANGED jobOtherVars

\* The request fails: executeWithRetry awaits its delay, or throws to the
\* catch of translateBatch, which puts the failed batch in the Map and awaits
\* its own delay before it calls translateBatch(failedBatch), or throws.
JobRequestFails(kind) ==
  /\ jpc = "request"
  /\ jobError' = handleApiError(kind)
  /\ IF jobAttempt < jobMaxRetries
     THEN /\ jpc' = "backoff"
          /\ jobDelays' = Append(jobDelays, retryDelay * (2 ^ jobAttempt))
          /\ UNCHANGED <<activeBatches, jobBatch>>
     ELSE LET failedBatch == FailedBatch(jobBatch, handleApiError(kind))
          IN /\ activeBatches' = failedBatch
             /\ jobBatch' = failedBatch
             /\ IF failedBatch.retryCount < jobMaxRetries
                THEN /\ jpc' = "batchBackoff"
                     /\ jobDelays' = Append(jobDelays,
                                            retryDelay * (2 ^ failedBatch.retryCount))
                ELSE /\ jpc' = "rejected"
                     /\ UNCHANGED jobDelays
  /\ UNCHANGED <<translationMemory, jobCached, jobAttempt, jobRequests, cancelled,
                 jobMaxRetries>>
  /\ UNCHANGED jobOtherVars

\* The delay of executeWithRetry is over: the next attempt posts again.
JobRetryRequest ==
  /\ jpc = "backoff"
  /\ jpc' = "request"
  /\ jobAttempt' = jobAttempt + 1
  /\ jobRequests' = jobRequests + 1
  /\ UNCHANGED <<translationMemory, activeBatches, jobBatch, jobCached, jobError,
                 jobDelays, cancelled, jobMaxRetries>>
  /\ UNCHANGED jobOtherVars

\* The delay of translateBatch is over: return this.translateBatch(failedBatch)
JobRetryBatch ==
  /\ jpc = "batchBackoff"
  /\ TranslateBatch(jobBatch)
  /\ UNCHANGED <<jobError, jobDelays, cancelled, jobMaxRetries>>
  /\ UNCHANGED jobOtherVars

\* cancelTranslation(id) on a batch that is IN_PROGRESS
CancelTranslation ==
  /\ activeBatches.status = "IN_PROGRESS"
  /\ activeBatches' = CancelledBatch(activeBatches)
  /\ cancelled' = TRUE
  /\ UNCHANGED <<translationMemory, jpc, jobBatch, jobCached, jobAttempt, jobError,
                 jobRequests, jobDelays, jobMaxRetries>>
  /\ UNCHANGED jobOtherVars

\* C11: translateBatch issues at most maxRetries + 1 backend requests for a
\* batch, and the n-th delay it awaits (n = 0, 1, ...) is retryDelay * 2^n.
C11_RetryCeilingAndBackoff ==
  /\ jobRequests <= jobMaxRetries + 1
  /\ \A n \in 1..Len(jobDelays) : jobDelays[n] = retryDelay * (2 ^ (n - 1))

\* C12: a started translateBatch eventually completes or rejects, whatever
\* the backend answers and whatever maxRetries is; when it has rejected,
\* the batch of getBatchStatus is FAILED, its errors hold the message of the
\* last error and its retryCount is larger than the 0 it was submitted with.
C12_SettlesAndReportsFailure ==
  /\ [](jpc = "rejected" =>
          /\ activeBatches.status = "FAILED"
          /\ activeBatches.errors = <<jobError>>
          /\ activeBatches.retryCount > 0)
  /\ (jpc # "none" ~> jpc \in {"completed", "rejected"})

\* C12 happens: with maxRetries = 3 every request of the batch failed and
\* translateBatch rejected after its last invocation.
C12_Witness ==
  /\ jpc = "rejected"
  /\ jobMaxRetries = maxRetries
  /\ activeBatches.retryCount = maxRetries
  /\ jobRequests = maxRetries * (maxRetries + 1)

\* C13: once cancelTranslation has marked an IN_PROGRESS batch,
\* getTranslationStatus reports FAILED with the cancellation error and no
\* results in every later state.
C13_CancelledStaysFailed ==
  cancelled =>
    /\ getTranslationStatus.status = "FAILED"
    /\ getTranslationStatus.errors = <<"Translation cancelled by user">>
    /\ getTranslationStatus.results = <<>>

\* C24: the status of the batch that getBatchStatus returns goes from
\* IN_PROGRESS to COMPLETED or to FAILED only, never changes once it is
\* COMPLETED or FAILED, and a COMPLETED batch has one result for each of
\* its texts and no errors.
C24_StatusMonotone ==
  /\ [][activeBatches.status \in {"COMPLETED", "FAILED"} =>
          activeBatches'.status = activeBatches.status]_vars
  /\ [][activeBatches.status = "IN_PROGRESS" =>
          activeBatches'.status \in {"IN_PROGRESS", "COMPLETED", "FAILED"}]_vars
  /\ [](activeBatches.status = "COMPLETED" =>
          /\ Len(activeBatches.results) = Len(activeBatches.texts)
          /\ activeBatches.errors = <<>>)

\* The node at addr of the document is where a fragment of the list was
\* extracted from.
FragmentLocation(type, document, fragments, addr) ==
  \E i \in 1..Len(fragments) : addr \in NodesOf(type, document, fragments[i])

\* The rebuilt value new stands to the original value old, at addr of the
\* document, as a rebuild that only substitutes fragment texts: an object
\* keeps its keys, an array its length, a string where a fragment is stays a
\* string, and every other value is the same.
RECURSIVE OnlySubstituted(_, _, _, _, _, _)
OnlySubstituted(type, document, fragments, old, new, addr) ==
  IF IsObj(old)
  THEN /\ IsObj(new)
       /\ new.keys = old.keys
       /\ \A i \in 1..Len(old.keys) :
            OnlySubstituted(type, document, fragments, old.vals[i], new.vals[i],
                            Append(addr, KeyStep(old.keys[i])))
  ELSE IF IsArr(old)
  THEN /\ IsArr(new)
       /\ Len(new.items) = Len(old.items)
       /\ \A i \in 1..Len(old.items) :
            OnlySubstituted(type, document, fragments, old.items[i], new.items[i],
                            Append(addr, IndexStep(i - 1)))
  ELSE IF IsStr(old) /\ FragmentLocation(type, document, fragments, addr)
  THEN IsStr(new)
  ELSE new = old

\* C20: the Editor.js, GrapeJS and JSON reconstruct, given the fragments of
\* parse with their translations, returns a document with the keys, the array
\* lengths and the values of the original at every node that is not the
\* place of a fragment, and puts no string where the original has an object,
\* an array or a number.
C20_OnlyFragmentLeavesChange ==
  (phase = "rebuilt" /\ origin = "parse" /\ content.json) =>
    /\ rebuilt.json
    /\ OnlySubstituted(parserType, content.value, extracted, content.value,
                       rebuilt.value, <<>>)

(***************************************************************************)
(* Logically concurrent translateText calls on one DeepLService            *)
(*                                                                         *)
(*   tpc       per task: idle, request, backoff, returned, threw           *)
(*   tcall     per task: the arguments of its translateText call           *)
(*   tcached   per task: what checkTranslationMemory returned to it        *)
(*   tattempt  per task: the loop counter of its executeWithRetry          *)
(*   tstarted  the translateText calls started                             *)
(***************************************************************************)

\* The callers that share the service.
Tasks == {1, 2}

\* The most translateText calls of the tasks together.
MaxTaskCalls == 2

\* config.maxRetries of the service the tasks share.
TaskMaxRetries == 1

\* The arguments of the calls: two texts with the same key ("Hello" and
\* " HELLO "), alone and with another text.
TaskTextLists == << <<t_Hello>>, <<t_HelloPadded, t_Bye>> >>

\* Every text a call can send.
TaskTexts == {t_Hello, t_HelloPadded, t_Bye}

InitTasks ==
  /\ tpc = [p \in Tasks |-> "idle"]
  /\ tcall = [p \in Tasks |-> NoCall]
  /\ tcached = [p \in Tasks |-> <<>>]
  /\ tattempt = [p \in Tasks |-> 0]
  /\ tstarted = 0

\* Task p calls translateText: the code runs without suspending up to the
\* await of the first backend request, or to the return of the cached results.
TaskTranslateText(p, texts, targetLanguage, sourceLanguage) ==
  /\ tpc[p] \in {"idle", "returned", "threw"}
  /\ tstarted < MaxTaskCalls
  /\ \E checked \in {checkTranslationMemory(
                       [memory |-> translationMemory, cached |-> <<>>], texts, 1,
                       OrElse(sourceLanguage, s_auto), targetLanguage)} :
       /\ translationMemory' = checked.memory
       /\ tcached' = [tcached EXCEPT ![p] = checked.cached]
       /\ tpc' = [tpc EXCEPT ![p] =
                    IF uncachedTexts(texts, checked.cached, 1) = <<>>
                    THEN "returned" ELSE "request"]
  /\ tcall' = [tcall EXCEPT ![p] = [texts |-> texts, targetLanguage |-> targetLanguage,
                                    sourceLanguage |-> sourceLanguage]]
  /\ tattempt' = [tattempt EXCEPT ![p] = 0]
  /\ tstarted' = tstarted + 1
  /\ UNCHANGED taskOtherVars

\* The request of task p succeeds: the continuation stores the translations
\* of its own uncached texts and returns; nothing else runs in between.
TaskRequestSucceeds(p, detectedLanguage) ==
  /\ tpc[p] = "request"
  /\ \E uncached \in {uncachedTexts(tcall[p].texts, tcached[p], 1)} :
     \E translations \in {[i \in 1..Len(uncached) |->
                             DeepLTranslation(uncached[i], tcall[p].targetLanguage)]} :
       translationMemory' =
         storeInTranslationMemory(
           translationMemory, uncached, translations, 1,
           OrElse(tcall[p].sourceLanguage, OrElse(detectedLanguage, s_auto)),
           tcall[p].targetLanguage)
  /\ tpc' = [tpc EXCEPT ![p] = "returned"]
  /\ UNCHANGED <<tcall, tcached, tattempt, tstarted>>
  /\ UNCHANGED taskOtherVars

\* The request of task p fails: executeWithRetry awaits its delay or throws.
TaskRequestFails(p) ==
  /\ tpc[p] = "request"
  /\ tpc' = [tpc EXCEPT ![p] = IF tattempt[p] < TaskMaxRetries THEN "backoff" ELSE "threw"]
  /\ UNCHANGED <<translationMemory, tcall, tcached, tattempt, tstarted>>
  /\ UNCHANGED taskOtherVars

\* The delay of task p is over: the next attempt posts again.
TaskRetryRequest(p) ==
  /\ tpc[p] = "backoff"
  /\ tpc' = [tpc EXCEPT ![p] = "request"]
  /\ tattempt' = [tattempt EXCEPT ![p] = tattempt[p] + 1]
  /\ UNCHANGED <<translationMemory, tcall, tcached, tstarted>>
  /\ UNCHANGED taskOtherVars

\* C14: whatever the interleaving of the calls, every entry of the memory is
\* under the key of its own sourceText, sourceLanguage and targetLanguage, and
\* its translatedText is what the backend answers, in the entry's target
\* language, for a text with that key.
C14_MemoryNotCorrupted ==
  \A i \in 1..Len(translationMemory) :
    LET entry == translationMemory[i]
    IN /\ entry.id = getMemoryKey(entry.sourceText, entry.sourceLanguage,
                                  entry.targetLanguage)
       /\ \E text \in TaskTexts \cup {BatchText(1)} :
            /\ getMemoryKey(text, entry.sourceLanguage, entry.targetLanguage) = entry.id
            /\ entry.translatedText = DeepLTranslation(text, entry.targetLanguage)

\* C14 happens: both tasks had a request for a text of the same key in
\* flight at once, both have stored, and the entry of that key holds the
\* translation of the later one.
C14_Witness ==
  /\ tpc = [p \in Tasks |-> "returned"]
  /\ tcached[1] = <<Null>> /\ tcached[2] = <<Null, Null>>
  /\ tcall[1].targetLanguage = tcall[2].targetLanguage
  /\ tcall[1].sourceLanguage = s_en /\ tcall[2].sourceLanguage = s_en
  /\ \E i \in 1..Len(translationMemory) :
       /\ translationMemory[i].sourceText = t_HelloPadded
       /\ translationMemory[i].id = getMemoryKey(t_Hello, s_en, tcall[1].targetLanguage)

(***************************************************************************)
(* EnhancedTranslationService.processStructuredContent                     *)
(*                                                                         *)
(*   ppc         idle, plain (createPlainTextTranslation was called),      *)
(*               translating (translateExtractedTexts was called), settled *)
(*   pdoc        the content of the call, a position of ProcessDocuments   *)
(*   pdeclared   the contentType argument, NoContentType when omitted      *)
(*   pparser     the parser selected, "null" when there is none            *)
(*   pfragments  what parser.parse returned                                *)
(*   submitted   the record handed to translationService.createTranslation *)
(***************************************************************************)

d_MdFence == <<"#"," ","T","i","t","l","e","\n",Backquote,Backquote,Backquote,"\n","#"," ","n","o","t"," ","a"," ","h","e","a","d","e","r","\n",Backquote,Backquote,Backquote,"\n">>
d_MdFenceJs == <<Backquote,Backquote,Backquote,"j","s","\n","l","e","t"," ","a","\n",Backquote,Backquote,Backquote,"p","y","\n",Backquote,Backquote,Backquote,"j","s","\n","S","e","e"," ","[","d","o","c","s","]","(","u",")">>
d_MdUnclosed == <<"I","n","t","r","o","\n"," "," ",Backquote,Backquote,Backquote,"\n","-"," ","i","t","e","m","\n",">"," ","q","u","o","t","e">>
d_MdTwoBlocks == <<Backquote,Backquote,Backquote,"\n","#"," ","o","n","e","\n",Backquote,Backquote,Backquote,"\n","1","."," ","i","t","e","m","\n",Backquote,Backquote,Backquote,"\n","*","*","b","*","*"," ","t","w","o","\n",Backquote,Backquote,Backquote>>
d_MdBold == <<"*","*","a","*","*">>
d_MdOnlyFence == <<Backquote,Backquote,Backquote,"\n","c","o","d","e","\n",Backquote,Backquote,Backquote>>
d_Plain == <<"H","e","l","l","o"," ","w","o","r","l","d">>
d_MdQuote == <<">","q","u","o","t","e","\n",">"," ","s","p","a","c","e","d","\n","-"," ","i","t","e","m">>

MarkdownDocuments ==
  << TextContent(d_MdFence), TextContent(d_MdFenceJs), TextContent(d_MdUnclosed),
     TextContent(d_MdTwoBlocks), TextContent(d_MdBold), TextContent(d_MdOnlyFence),
     TextContent(d_Plain), TextContent(d_MdQuote) >>

\* The documents of the processStructuredContent calls of the model.
ProcessDocuments == Contents \o MarkdownDocuments

\* The contentType argument was omitted.
NoContentType == "undefined"

\* enum ContentType
ContentTypes ==
  {"PLAIN_TEXT", "HTML", "MARKDOWN", "EDITOR_JS", "GRAPE_JS", "JSON", "RICH_TEXT",
   "STRUCTURED_DATA"}

\* HtmlParser.parse walks the DOM of the browser, which is no part of the
\* repository: it returns no fragment, or some fragments.
HtmlParseResults == {<<>>, <<Fragment(p_textNode0, t_Hello, c_textp, "text")>>}

\* No record was handed to createTranslation.
NoSubmission ==
  [sourceText |-> TextContent(<<>>), translatedText |-> <<>>, status |-> "NONE",
   contentType |-> "NONE"]

\* The record of createPlainTextTranslation
PlainTextTranslation(document) ==
  [sourceText |-> document, translatedText |-> <<>>, status |-> "PENDING",
   contentType |-> "PLAIN_TEXT"]

\* contentType ? getParserByType(contentType) : getParser(content)
SelectParser(ps, document, contentType) ==
  IF contentType # NoContentType THEN getParserByType(ps, contentType)
  ELSE getParser(ps, document)

\* A plausible slip: an empty fragment list is translated like any other.
ProcessOutcomeNoEmptyCheck(parser, fragments) ==
  IF parser = "null" THEN "plain" ELSE "translating"

\* if (!parser) return createPlainTextTranslation(...);
\* if (extractedTexts.length === 0) return createPlainTextTranslation(...)
ProcessOutcome(parser, fragments) ==
  IF parser = "null" THEN "plain"
  ELSE IF Len(fragments) = 0 THEN "plain"
  ELSE "translating"

\* The issues and suggestions of validateTranslation.
StructureIssue(contentType) == <<"Translated content doesn't maintain structure", contentType>>
StructureSuggestion == <<"Review the translation to ensure proper formatting is preserved">>
ElementCountIssue == <<"Number of translatable elements changed during translation">>
ElementCountSuggestion == <<"Verify that all text elements are properly translated">>
IdenticalIssue == <<"Translation appears to be identical to source text">>
IdenticalSuggestion == <<"Verify that translation was actually performed">>
EmptyIssue == <<"Translation is empty">>
EmptySuggestion == <<"Ensure translation service is working correctly">>

\* A Translation: originalStructure says that metadata.originalStructure is
\* there and truthy.
Translation(contentType, originalStructure, sourceText, translatedText) ==
  [contentType |-> contentType, originalStructure |-> originalStructure,
   sourceText |-> sourceText, translatedText |-> translatedText]

\* The parser validateTranslation works with, "null" when it skips the
\* structural checks.
ValidationParser(ps, translation) ==
  IF translation.contentType # NoContentType /\ translation.originalStructure
  THEN getParserByType(ps, translation.contentType)
  ELSE "null"

\* The checks of validateTranslation in their order: which of the four
\* pairs of issue and suggestion are pushed.
ValidationFindings(parser, translation) ==
  << /\ parser # "null"
     /\ ~Validate(parser, translation.translatedText),
     /\ parser # "null"
     /\ Len(Parse(parser, translation.sourceText))
          # Len(Parse(parser, translation.translatedText)),
     ContentText(translation.translatedText) = ContentText(translation.sourceText),
     Len(ContentText(translation.translatedText)) = 0 >>

\* The elements of list whose finding is TRUE, in order.
Pushed(findings, list) ==
  (IF findings[1] THEN <<list[1]>> ELSE <<>>) \o (IF findings[2] THEN <<list[2]>> ELSE <<>>)
    \o (IF findings[3] THEN <<list[3]>> ELSE <<>>)
    \o (IF findings[4] THEN <<list[4]>> ELSE <<>>)

\* validateTranslation
validateTranslation(ps, translation) ==
  CHOOSE r \in
    {[isValid |-> Len(Pushed(findings, <<1, 2, 3, 4>>)) = 0,
      issues |-> Pushed(findings, <<StructureIssue(translation.contentType),
                                    ElementCountIssue, IdenticalIssue, EmptyIssue>>),
      suggestions |-> Pushed(findings, <<StructureSuggestion, ElementCountSuggestion,
                                         IdenticalSuggestion, EmptySuggestion>>)] :
       findings \in {ValidationFindings(ValidationParser(ps, translation), translation)}} :
    TRUE

\* The translations validateTranslation is called with: every content type
\* but HTML, whose parse needs the DOM.
ValidationTypes == ContentTypes \ {"HTML"}

ValidationDocuments ==
  << TextContent(d_MdTitle), TextContent(d_MdFence), TextContent(<<>>),
     JsonDocuments[2], JsonDocuments[6], EditorJSDocuments[1] >>

\* validateTranslation was not called.
NoValidation ==
  [called |-> FALSE,
   translation |-> Translation("PLAIN_TEXT", FALSE, TextContent(<<>>), TextContent(<<>>)),
   result |-> [isValid |-> FALSE, issues |-> <<>>, suggestions |-> <<>>]]

\* A number, and a value that is no number.
Number(n) == [isNumber |-> TRUE, value |-> n]
NotANumber(what) == [isNumber |-> FALSE, value |-> 0, what |-> what]

\* The keys and values of the priorities object literal.
priorities ==
  [header |-> 10, paragraph |-> 8, quote |-> 7, list |-> 6, table |-> 5, image |-> 3,
   embed |-> 2]

\* The properties every object literal inherits from Object.prototype: its
\* methods, and the prototype object itself under __proto__.
ObjectPrototypeKeys ==
  {"constructor", "toString", "toLocaleString", "valueOf", "hasOwnProperty",
   "isPrototypeOf", "propertyIsEnumerable", "__proto__"}

\* priorities[blockType] || 5
getBlockTranslationPriority(blockType) ==
  IF blockType \in DOMAIN priorities THEN Number(priorities[blockType])
  ELSE IF blockType = "__proto__" THEN NotANumber("object")
  ELSE IF blockType \in ObjectPrototypeKeys THEN NotANumber("function")
  ELSE Number(5)

\* block.type of the blocks of the documents optimizeEditorJsContent gets.
BlockTypes ==
  DOMAIN priorities \cup {"checklist", "warning", "delimiter", "myBlock", "",
                          "constructor", "toString", "__proto__"}

\* The most blocks of a document of optimizeEditorJsContent.
MaxBlocks == 2

\* optimizeEditorJsContent was not called.
NoPriority == [types |-> <<>>, priority |-> <<>>]

InitProcess ==
  /\ ppc = "idle"
  /\ pdoc = 0
  /\ pdeclared = NoContentType
  /\ pparser = "null"
  /\ pfragments = <<>>
  /\ submitted = NoSubmission
  /\ validated = NoValidation
  /\ optimized = NoPriority

\* processStructuredContent up to its first await.
ProcessStructuredContent(d, contentType, html) ==
  /\ ppc = "idle"
  /\ pdoc' = d
  /\ pdeclared' = contentType
  /\ \E parser \in {SelectParser(parsers, ProcessDocuments[d], contentType)} :
     \E fragments \in {IF parser = "null" THEN <<>>
                        ELSE IF parser = "HTML" THEN html
                        ELSE Parse(parser, ProcessDocuments[d])} :
       /\ pparser' = parser
       /\ pfragments' = fragments
       /\ ppc' = ProcessOutcome(parser, fragments)
       /\ submitted' = IF ProcessOutcome(parser, fragments) = "plain"
                       THEN PlainTextTranslation(ProcessDocuments[d])
                       ELSE NoSubmission
  /\ UNCHANGED <<validated, optimized>>
  /\ UNCHANGED processOtherVars

\* The backend call of the plain-text record, or the translation of the
\* fragments, is over: the promise of processStructuredContent settles.
ProcessSettles ==
  /\ ppc \in {"plain", "translating"}
  /\ ppc' = "settled"
  /\ UNCHANGED <<pdoc, pdeclared, pparser, pfragments, submitted, validated, optimized>>
  /\ UNCHANGED processOtherVars

\* No parser for the content of the last call: auto-detection found none, or
\* the declared type has no registered parser.
NoParserFor(document, contentType) ==
  IF contentType = NoContentType
  THEN \A i \in 1..Len(parsers) : ~ParserValidate(parsers[i], document)
  ELSE \A i \in 1..Len(parsers) : parsers[i] # contentType

\* C15: when no parser is found for the content, or the selected parser
\* returns no fragment, processStructuredContent hands the whole document to
\* createTranslation as one PLAIN_TEXT record and does not go on to translate
\* fragments.
C15_PlainTextFallback ==
  (ppc \in {"plain", "translating"}
     /\ (NoParserFor(ProcessDocuments[pdoc], pdeclared) \/ pfragments = <<>>)) =>
    /\ ppc = "plain"
    /\ submitted.sourceText = ProcessDocuments[pdoc]
    /\ submitted.contentType = "PLAIN_TEXT"

\* C15 happens: the Markdown parser is selected for a document that is one
\* code block, extracts nothing, and the document is submitted as plain text.
C15_Witness ==
  /\ ppc = "plain"
  /\ pparser = "MARKDOWN"
  /\ pdeclared = NoContentType
  /\ ProcessDocuments[pdoc] = TextContent(d_MdOnlyFence)
  /\ submitted = PlainTextTranslation(TextContent(d_MdOnlyFence))

\* The opening fence of the code block that is open after the first k lines,
\* the empty string when none is.
RECURSIVE OpenFence(_, _)
OpenFence(lines, k) ==
  IF k = 0 THEN <<>>
  ELSE CHOOSE r \in
         {IF ~IsFenceLine(lines[k]) THEN before
          ELSE IF before = <<>> THEN Trim(lines[k])
          ELSE IF Trim(lines[k]) = before \/ Trim(lines[k]) = s_fence THEN <<>>
          ELSE before : before \in {OpenFence(lines, k - 1)}} : TRUE

\* Line k is a fence line or lies between an opening fence and its closing line.
InCodeFence(lines, k) == IsFenceLine(lines[k]) \/ OpenFence(lines, k - 1) # <<>>

\* C16: every fragment MarkdownParser.parse returns comes from a line that is
\* neither a fence line nor between an opening fence and its closing line,
\* and the document "# Title", fence, "# not a header", fence yields exactly
\* the header fragment "Title".
C16_NoFragmentFromCodeFence ==
  (pdoc # 0 /\ pparser = "MARKDOWN") =>
    LET lines == SplitLines(ContentText(ProcessDocuments[pdoc]))
    IN /\ \A i \in 1..Len(pfragments) :
            \E k \in 1..Len(lines) :
              /\ HasAt(pfragments[i].id, LineId(k - 1, <<"_">>), 1)
              /\ ~InCodeFence(lines, k)
       /\ ProcessDocuments[pdoc] = TextContent(d_MdFence) =>
            pfragments = <<Fragment(p_line0header, t_Title, c_H1, "text")>>

\* C16 happens: a document with two code blocks and a list item between
\* them was parsed, and the list item is its only fragment.
C16_Witness ==
  /\ pdoc # 0
  /\ pparser = "MARKDOWN"
  /\ ProcessDocuments[pdoc] = TextContent(d_MdTwoBlocks)
  /\ Len(pfragments) = 1
  /\ pfragments[1].originalText = <<"i","t","e","m">>

\* C22: in the fragments MarkdownParser.parse returns, no line has a
\* paragraph-text fragment together with a header, blockquote or list-item
\* fragment, a blockquote written without a space after '>' included.
C22_NoParagraphForStructuredLine ==
  (pdoc # 0 /\ pparser = "MARKDOWN") =>
    \A k \in 0..Len(ContentText(ProcessDocuments[pdoc])) :
      \A i, j \in 1..Len(pfragments) :
        pfragments[i].id = LineId(k, x_text) =>
          pfragments[j].id \notin {LineId(k, x_header), LineId(k, x_blockquote),
                                   LineId(k, x_list_item)}

\* C17: no two fragments of one parse call have the same id.
C17_UniqueFragmentIds ==
  \A i, j \in 1..Len(pfragments) : i # j => pfragments[i].id # pfragments[j].id

\* validateTranslation(translation)
ValidateTranslation(contentType, originalStructure, d, e) ==
  /\ validated' =
       [called |-> TRUE,
        translation |-> Translation(contentType, originalStructure,
                                    ValidationDocuments[d], ValidationDocuments[e]),
        result |-> validateTranslation(
                     parsers, Translation(contentType, originalStructure,
                                          ValidationDocuments[d], ValidationDocuments[e]))]
  /\ UNCHANGED <<ppc, pdoc, pdeclared, pparser, pfragments, submitted, optimized>>
  /\ UNCHANGED processOtherVars

\* optimizeEditorJsContent on a document whose blocks have the given types:
\* tunes.translation.priority of each block.
OptimizeEditorJsContent(types) ==
  /\ optimized' = [types |-> types,
                   priority |-> [i \in 1..Len(types) |->
                                   getBlockTranslationPriority(types[i])]]
  /\ UNCHANGED <<ppc, pdoc, pdeclared, pparser, pfragments, submitted, validated>>
  /\ UNCHANGED processOtherVars

\* The fragment counts of the source and of the translated text differ, for
\* the parser of the content type of the translation.
ElementCountDiffers(translation) ==
  /\ \E i \in 1..Len(parsers) : parsers[i] = translation.contentType
  /\ Len(Parse(translation.contentType, translation.sourceText))
       # Len(Parse(translation.contentType, translation.translatedText))

\* C18: validateTranslation returns a result; when the fragment counts of
\* sourceText and translatedText differ its issues hold the element-count
\* issue and its suggestions the matching suggestion, and isValid is TRUE
\* exactly when there is no issue.
C18_CountMismatchReported ==
  validated.called =>
    /\ ElementCountDiffers(validated.translation) =>
         /\ \E i \in 1..Len(validated.result.issues) :
              validated.result.issues[i] = ElementCountIssue
         /\ \E i \in 1..Len(validated.result.suggestions) :
              validated.result.suggestions[i] = ElementCountSuggestion
    /\ validated.result.isValid <=> validated.result.issues = <<>>

\* C19: every block gets the priority of the table for its type, and 5 when
\* its type is no key of the table.
C19_PriorityTableOrDefault ==
  \A i \in 1..Len(optimized.types) :
    optimized.priority[i] =
      IF optimized.types[i] \in DOMAIN priorities
      THEN Number(priorities[optimized.types[i]])
      ELSE Number(5)

(***************************************************************************)
(* Extraction, translation and rebuild of HTML and Markdown documents:     *)
(* parse, the translate step and reconstruct of the two parsers that       *)
(* rebuild by text substitution, on the variables of the parser pass.      *)
(***************************************************************************)

d_HtmlInput == <<"<","i","n","p","u","t"," ","v","a","l","u","e","=","\"","G","o","\""," ","t","i","t","l","e","=","\"","H","i","\"",">">>
d_HtmlTwo == <<"<","p",">","H","e","l","l","o","<","/","p",">","<","p",">","C","a","t","<","/","p",">">>
d_HtmlBare == <<"H","e","l","l","o"," ","<","b",">","C","a","t","<","/","b",">">>
d_MdBang == <<"H","e","l","l","o"," ","w","o","r","l","d","!">>
d_MdPets == <<"C","a","t","\n","D","o","g">>

\* HTML documents: the text and the child nodes of tempDiv for it.
HtmlDocuments ==
  << [text |-> d_HtmlP,
      childNodes |-> <<HtmlElement(<<"p">>, <<>>, <<HtmlTextNode(t_Hello)>>)>>],
     [text |-> d_HtmlImg,
      childNodes |-> <<HtmlElement(<<"i","m","g">>, <<HtmlAttribute(s_alt, t_CatAlt)>>, <<>>)>>],
     [text |-> d_HtmlInput,
      childNodes |-> <<HtmlElement(<<"i","n","p","u","t">>,
                                   <<HtmlAttribute(s_value, <<"G","o">>),
                                     HtmlAttribute(s_title, <<"H","i">>)>>, <<>>)>>],
     [text |-> d_HtmlTwo,
      childNodes |-> <<HtmlElement(<<"p">>, <<>>, <<HtmlTextNode(t_Hello)>>),
                       HtmlElement(<<"p">>, <<>>, <<HtmlTextNode(t_CatAlt)>>)>>],
     [text |-> d_HtmlBare,
      childNodes |-> <<HtmlTextNode(t_Hello \o <<" ">>),
                       HtmlElement(<<"b">>, <<>>, <<HtmlTextNode(t_CatAlt)>>)>>] >>

\* Markdown documents of the text pass.
MarkdownSources ==
  << TextContent(d_MdTitle), TextContent(d_MdImage), TextContent(d_MdBang),
     TextContent(d_MdPets) >>

\* extractedTexts = new HtmlParser().parse(content)
ParseHtml(d, threw) ==
  /\ phase = "idle"
  /\ phase' = "parsed"
  /\ origin' = "parse"
  /\ parserType' = "HTML"
  /\ content' = TextContent(HtmlDocuments[d].text)
  /\ extracted' = HtmlParse(HtmlDocuments[d], threw)
  /\ UNCHANGED <<rebuilt, registryVars, batchVars, deeplVars, moreVars>>

\* extractedTexts = new MarkdownParser().parse(content)
ParseMarkdown(d) ==
  /\ phase = "idle"
  /\ phase' = "parsed"
  /\ origin' = "parse"
  /\ parserType' = "MARKDOWN"
  /\ content' = MarkdownSources[d]
  /\ extracted' = MarkdownParse(MarkdownSources[d])
  /\ UNCHANGED <<rebuilt, registryVars, batchVars, deeplVars, moreVars>>

\* The texts the backend may answer for the i-th fragment of the pass: a text
\* of its own, or a text that is the original text of a fragment of the pass.
TextTranslations(i) ==
  {TranslationFor(i)} \cup {extracted[j].originalText : j \in 1..Len(extracted)}

\* The HTML document of the pass.
HtmlDocumentOf(c) == CHOOSE doc \in {HtmlDocuments[d] : d \in 1..Len(HtmlDocuments)} : TextContent(doc.text) = c

\* The attribute fragments of a list for the attribute name n.
AttributeFragments(fragments, n) ==
  {i \in 1..Len(fragments) :
     StartsWith(fragments[i].context, n \o <<" ","a","t","t","r","i","b","u","t","e">>)}

\* C23: for an HTML document, every attribute name that the DOM path of
\* HtmlParser.parse extracts a fragment for is extracted by the regex
\* fallback too, and the fragments of the two paths for one attribute name
\* have the same type.
C23_DomAndRegexAgreeOnAttributes ==
  (phase # "idle" /\ origin = "parse" /\ parserType = "HTML") =>
    LET dom == HtmlParse(HtmlDocumentOf(content), FALSE)
        regex == HtmlParse(HtmlDocumentOf(content), TRUE)
    IN \A n \in textualAttributes :
         \A i \in AttributeFragments(dom, n) :
           /\ AttributeFragments(regex, n) # {}
           /\ \A j \in AttributeFragments(regex, n) : regex[j].type = dom[i].type

\* A mark that stands for the translation of the i-th fragment: one
\* character that no expression of reconstruct matches.
ProtectedMark == <<"@1", "@2", "@3", "@4">>

\* The fragments with every translation that reconstruct applies replaced by
\* its mark.
Protected(fragments) ==
  [i \in 1..Len(fragments) |->
     IF IsTranslated(fragments[i])
     THEN [fragments[i] EXCEPT !.translatedText = <<ProtectedMark[i]>>]
     ELSE fragments[i]]

\* The text s with every mark replaced by the translation it stands for.
RECURSIVE Unprotect(_, _, _)
Unprotect(s, fragments, k) ==
  IF k > Len(s) THEN <<>>
  ELSE (IF \E i \in 1..Len(fragments) : ProtectedMark[i] = s[k]
        THEN fragments[CHOOSE i \in 1..Len(fragments) : ProtectedMark[i] = s[k]].translatedText
        ELSE <<s[k]>>) \o Unprotect(s, fragments, k + 1)

\* C26: the document that the HTML or Markdown reconstruct returns is the one
\* in which the substitution of a fragment never matches text written as the
\* translation of an earlier fragment: the same document results when the
\* translations are kept out of reach of the later substitutions.
C26_TranslationsNotRewritten ==
  (phase = "rebuilt" /\ origin = "parse" /\ parserType \in TextTypes) =>
    ContentText(rebuilt) =
      Unprotect(ContentText(Reconstruct(parserType, content, Protected(extracted))),
                extracted, 1)

\* s holds p.
Contains(s, p) == \E i \in 1..(Len(s) + 1) : HasAt(s, p, i)

\* C27: when every translation of the pass is a text of its own, each
\* fragment of parse that has a translation is substituted by the HTML or
\* Markdown reconstruct: the rebuilt document holds its translation.
C27_EveryTranslationApplied ==
  (/\ phase = "rebuilt" /\ origin = "parse" /\ parserType \in TextTypes
   /\ \A i \in 1..Len(extracted) :
        extracted[i].translatedText \in {Undefined, TranslationFor(i)}) =>
    \A i \in 1..Len(extracted) :
      extracted[i].translatedText = TranslationFor(i) =>
        Contains(ContentText(rebuilt), TranslationFor(i))

(***************************************************************************)
(* DeepLTranslationManager: the job list of the component and its poller.  *)
(*   displayed  status.status of the job of the list: "none" when the list *)
(*              has no job, "null" when the job's status is null           *)
(*   ticks      the runs of the interval callback, counted modulo          *)
(*              TickWrap                                                   *)
(* The Cancel and Retry buttons are rendered for a job whose displayed     *)
(* status is IN_PROGRESS or FAILED; the job of startTranslation has        *)
(* neither before the poller sets one.                                     *)
(***************************************************************************)

TickWrap == 2

\* The statuses of the filter of updateJobStatuses.
ActiveStatuses == {"IN_PROGRESS", "PENDING"}

InitManager ==
  /\ displayed = "none"
  /\ ticks = 0

\* startTranslation after the await of requestTranslation:
\* setJobs(prev => [newJob, ...prev]) with newJob.status = null
AddJob ==
  /\ jpc # "none"
  /\ displayed = "none"
  /\ displayed' = "null"
  /\ UNCHANGED ticks
  /\ UNCHANGED managerOtherVars

\* The interval callback updateJobStatuses: the jobs whose status.status is
\* IN_PROGRESS or PENDING get the answer of getTranslationStatus.
UpdateJobStatuses ==
  /\ ticks' = (ticks + 1) % TickWrap
  /\ displayed' = IF displayed \in ActiveStatuses THEN getTranslationStatus.status
                  ELSE displayed
  /\ UNCHANGED managerOtherVars

\* C25: once startTranslation has added the job, its displayed status
\* eventually is the final status, COMPLETED or FAILED, of its batch.
C25_JobTrackedToCompletion ==
  (displayed # "none") ~>
    (jpc \in {"completed", "rejected"} /\ displayed = activeBatches.status)

(***************************************************************************)
(* EnhancedTranslationService.bulkProcessContent                           *)
(*   bulkPc       "idle", "calling" while processStructuredContent of the  *)
(*                pair (bulkItem, bulkTarget) is awaited, "returned"       *)
(*   bulkItems    the contentItems of the call                             *)
(*   bulkTargets  the targetLanguages of the call                          *)
(*   bulkResults  the results list                                         *)
(*   bulkThrown   for each pair that was processed, the message of the     *)
(*                error its processStructuredContent threw, or Null        *)
(* processStructuredContent throws when createTranslation of the           *)
(* plain-text record rejects; the parsers and translateExtractedTexts      *)
(* catch their errors.                                                     *)
(***************************************************************************)

ContentItem(text, context, contentType) ==
  [content |-> text, context |-> context, contentType |-> contentType]

c_intro == <<"i","n","t","r","o">>
c_body == <<"b","o","d","y">>

\* The content items of the calls of the model: a text no parser accepts, a
\* Markdown document without fragments, a Markdown document and a JSON
\* document with fragments, one of them with a declared type.
BulkItems ==
  { ContentItem(TextContent(d_Plain), c_intro, NoContentType),
    ContentItem(TextContent(d_MdOnlyFence), c_body, "MARKDOWN"),
    ContentItem(TextContent(d_MdTitle), c_body, NoContentType),
    ContentItem(JsonDocuments[2], c_intro, "JSON") }

\* The most content items of a call.
MaxItems == 2

BulkItemLists == UNION {[1..n -> BulkItems] : n \in 0..MaxItems}

BulkTargetLists == {<<>>, <<s_es>>, <<s_es, s_fr>>, <<s_fr, s_fr>>}

BulkSourceLanguage == s_en

\* error.message of the errors createTranslation rejects with.
BulkErrorMessages == {"Network Error", "Failed to create translation"}

\* translateExtractedTexts when every createTranslation resolves
RECURSIVE BulkTranslateExtractedTexts(_, _, _)
BulkTranslateExtractedTexts(fragments, targetLanguage, i) ==
  IF i > Len(fragments) THEN <<>>
  ELSE <<[fragments[i] EXCEPT
            !.translatedText = DeepLTranslation(fragments[i].originalText, targetLanguage)]>>
       \o BulkTranslateExtractedTexts(fragments, targetLanguage, i + 1)

\* No error: metadata has no error, the pair did not throw.
NoError == "none"

\* A record of the results list, with metadata.error as error.
BulkRecord(item, targetLanguage, translatedText, status, contentType, error) ==
  [sourceText |-> item.content, translatedText |-> translatedText,
   sourceLanguage |-> BulkSourceLanguage, targetLanguage |-> targetLanguage,
   context |-> item.context, status |-> status, contentType |-> contentType,
   error |-> error]

\* The record processStructuredContent resolves with: the record
\* createTranslation answers for the plain-text submission, or the COMPLETED
\* record of the reconstructed content.
ProcessedRecord(item, targetLanguage, parser, fragments) ==
  IF ProcessOutcome(parser, fragments) = "plain"
  THEN BulkRecord(item, targetLanguage, <<>>, "PENDING", "PLAIN_TEXT", NoError)
  ELSE BulkRecord(item, targetLanguage,
         ContentText(Reconstruct(parser, item.content,
                       BulkTranslateExtractedTexts(fragments, targetLanguage, 1))),
         "COMPLETED", parser, NoError)

processStructuredContent(ps, item, targetLanguage) ==
  CHOOSE r \in
    {ProcessedRecord(item, targetLanguage, parser,
                     IF parser = "null" THEN <<>> ELSE Parse(parser, item.content)) :
       parser \in {SelectParser(ps, item.content, item.contentType)}} : TRUE

\* processStructuredContent of the item awaits createTranslation of the
\* plain-text record, which may reject.
MayThrow(ps, item) ==
  \E parser \in {SelectParser(ps, item.content, item.contentType)} :
    ProcessOutcome(parser, IF parser = "null" THEN <<>> ELSE Parse(parser, item.content))
      = "plain"

\* A plausible slip: the record of a failed pair is left PENDING.
FailedTranslationPending(item, targetLanguage, message) ==
  BulkRecord(item, targetLanguage, <<>>, "PENDING",
             IF item.contentType = NoContentType THEN "PLAIN_TEXT" ELSE item.contentType,
             message)

\* The record the catch block of bulkProcessContent pushes.
FailedTranslation(item, targetLanguage, message) ==
  BulkRecord(item, targetLanguage, <<>>, "FAILED",
             IF item.contentType = NoContentType THEN "PLAIN_TEXT" ELSE item.contentType,
             message)

InitBulk ==
  /\ bulkPc = "idle"
  /\ bulkItems = <<>>
  /\ bulkTargets = <<>>
  /\ bulkItem = 0
  /\ bulkTarget = 0
  /\ bulkResults = <<>>
  /\ bulkThrown = <<>>

\* bulkProcessContent(contentItems, sourceLanguage, targetLanguages) up to its
\* first await, or to its return when there is no pair.
BulkProcessContent(contentItems, targetLanguages) ==
  /\ bulkPc \in {"idle", "returned"}
  /\ bulkItems' = contentItems
  /\ bulkTargets' = targetLanguages
  /\ bulkResults' = <<>>
  /\ bulkThrown' = <<>>
  /\ IF Len(contentItems) > 0 /\ Len(targetLanguages) > 0
     THEN bulkPc' = "calling" /\ bulkItem' = 1 /\ bulkTarget' = 1
     ELSE bulkPc' = "returned" /\ bulkItem' = 0 /\ bulkTarget' = 0
  /\ UNCHANGED bulkOtherVars

\* The loops go on with the next target language, then with the next item,
\* then bulkProcessContent returns.
BulkAdvance ==
  IF bulkTarget < Len(bulkTargets)
  THEN bulkPc' = "calling" /\ bulkItem' = bulkItem /\ bulkTarget' = bulkTarget + 1
  ELSE IF bulkItem < Len(bulkItems)
       THEN bulkPc' = "calling" /\ bulkItem' = bulkItem + 1 /\ bulkTarget' = 1
       ELSE bulkPc' = "returned" /\ bulkItem' = bulkItem /\ bulkTarget' = bulkTarget

\* The awaited processStructuredContent resolves: results.push(translation)
BulkPairResolves ==
  /\ bulkPc = "calling"
  /\ bulkResults' = Append(bulkResults,
       processStructuredContent(parsers, bulkItems[bulkItem], bulkTargets[bulkTarget]))
  /\ bulkThrown' = Append(bulkThrown, NoError)
  /\ BulkAdvance
  /\ UNCHANGED <<bulkItems, bulkTargets>>
  /\ UNCHANGED bulkOtherVars

\* The awaited processStructuredContent throws: the catch block pushes the
\* failed record.
BulkPairThrows(message) ==
  /\ bulkPc = "calling"
  /\ MayThrow(parsers, bulkItems[bulkItem])
  /\ bulkResults' = Append(bulkResults,
       FailedTranslation(bulkItems[bulkItem], bulkTargets[bulkTarget], message))
  /\ bulkThrown' = Append(bulkThrown, message)
  /\ BulkAdvance
  /\ UNCHANGED <<bulkItems, bulkTargets>>
  /\ UNCHANGED bulkOtherVars

\* The item and the target language of the k-th pair, item-major.
PairItem(k) == bulkItems[((k - 1) \div Len(bulkTargets)) + 1]
PairTarget(k) == bulkTargets[((k - 1) % Len(bulkTargets)) + 1]

\* C30: bulkProcessContent returns one record for each pair of content item
\* and target language, item-major and then in the order of the target
\* languages; the record of a pair whose processStructuredContent threw has
\* status FAILED, an empty translatedText and the message of the error, and
\* the pairs after it are processed; the call always returns.
C30_OneRecordPerPair ==
  /\ bulkPc \in {"idle", "calling", "returned"}
  /\ Len(bulkThrown) = Len(bulkResults)
  /\ bulkPc = "calling" =>
       Len(bulkResults) = (bulkItem - 1) * Len(bulkTargets) + (bulkTarget - 1)
  /\ bulkPc = "returned" => Len(bulkResults) = Len(bulkItems) * Len(bulkTargets)
  /\ \A k \in 1..Len(bulkResults) :
       /\ bulkResults[k].sourceText = PairItem(k).content
       /\ bulkResults[k].context = PairItem(k).context
       /\ bulkResults[k].targetLanguage = PairTarget(k)
       /\ bulkThrown[k] # NoError =>
            /\ bulkResults[k].status = "FAILED"
            /\ bulkResults[k].translatedText = <<>>
            /\ bulkResults[k].error = bulkThrown[k]

\* C30 happens: a call with two items and two target languages has returned
\* four records, the first pair threw and a later pair was translated.
C30_Witness ==
  /\ bulkPc = "returned"
  /\ Len(bulkItems) = 2 /\ Len(bulkTargets) = 2
  /\ Len(bulkResults) = 4
  /\ bulkThrown[1] # NoError
  /\ bulkResults[1].status = "FAILED"
  /\ \E k \in 2..4 : bulkResults[k].status = "COMPLETED"

(***************************************************************************)
(* Specifications                                                          *)
(***************************************************************************)

Init ==
  /\ InitParse /\ InitRegistry /\ InitBatch /\ InitDeepL /\ InitJob /\ InitTasks
  /\ InitProcess /\ InitManager /\ InitBulk

NextParse ==
  \/ \E type \in StructuralTypes, d \in 1..Len(Contents) : ParseContent(type, d)
  \/ \E type \in StructuralTypes \cup TextTypes, d \in 1..Len(Contents),
        l \in 1..Len(SuppliedTranslations) : SupplyTranslations(type, d, l)
  \/ \E i \in 1..Len(extracted) :
       \E t \in {<<>>, extracted[i].originalText, TranslationFor(i)} :
         SetTranslatedText(i, t)
  \/ ReconstructContent

SpecParse == Init /\ [][NextParse]_vars

NextText ==
  \/ \E d \in 1..Len(HtmlDocuments), threw \in BOOLEAN : ParseHtml(d, threw)
  \/ \E d \in 1..Len(MarkdownSources) : ParseMarkdown(d)
  \/ \E i \in 1..Len(extracted) : \E t \in TextTranslations(i) : SetTranslatedText(i, t)
  \/ ReconstructContent

SpecText == Init /\ [][NextText]_vars

NextRegistry ==
  \/ \E parser \in RegisterableParsers : RegisterParser(parser)
  \/ \E d \in 1..Len(Contents) : GetParser(d)

SpecRegistry == Init /\ [][NextRegistry]_vars

NextBatch ==
  \/ \E n \in 0..MaxFragments : TranslateExtractedTexts(n)
  \/ \E k \in 1..batchSize : CreateTranslationSucceeds(k)
  \/ \E k \in 1..batchSize : CreateTranslationFails(k)
  \/ BatchSettles
  \/ DelayElapses
  \/ Rerun

SpecBatch == Init /\ [][NextBatch]_vars

NextDeepL ==
  \/ \E l \in 1..Len(TextLists), targetLanguage \in TargetLanguages,
        sourceLanguage \in SourceLanguages :
       TranslateText(TextLists[l], targetLanguage, sourceLanguage)
  \/ \E detectedLanguage \in DetectedLanguages : RequestSucceeds(detectedLanguage)
  \/ \E kind \in ErrorKinds : RequestFails(kind)
  \/ RetryRequest
  \/ CallSettles
  \/ ClearTranslationMemory

SpecDeepL == Init /\ [][NextDeepL]_vars

NextJob ==
  \/ \E l \in 1..Len(JobTextLists), configured \in 0..maxRetries :
       RequestTranslation(l, configured)
  \/ JobRequestSucceeds
  \/ \E kind \in JobErrorKinds : JobRequestFails(kind)
  \/ JobRetryRequest
  \/ JobRetryBatch
  \/ CancelTranslation

SpecJob == Init /\ [][NextJob]_vars

NextTasks ==
  \E p \in Tasks :
    \/ \E l \in 1..Len(TaskTextLists), targetLanguage \in TargetLanguages,
          sourceLanguage \in SourceLanguages :
         TaskTranslateText(p, TaskTextLists[l], targetLanguage, sourceLanguage)
    \/ \E detectedLanguage \in DetectedLanguages : TaskRequestSucceeds(p, detectedLanguage)
    \/ TaskRequestFails(p)
    \/ TaskRetryRequest(p)

SpecTasks == Init /\ [][NextTasks]_vars

NextProcess ==
  \/ \E d \in 1..Len(ProcessDocuments), contentType \in ContentTypes \cup {NoContentType},
        html \in HtmlParseResults :
       ProcessStructuredContent(d, contentType, html)
  \/ ProcessSettles

SpecProcess == Init /\ [][NextProcess]_vars

NextValidate ==
  \E contentType \in ValidationTypes, originalStructure \in BOOLEAN,
     d \in 1..Len(ValidationDocuments), e \in 1..Len(ValidationDocuments) :
    ValidateTranslation(contentType, originalStructure, d, e)

SpecValidate == Init /\ [][NextValidate]_vars

\* The block type lists of at most MaxBlocks blocks.
BlockTypeLists == UNION {[1..n -> BlockTypes] : n \in 1..MaxBlocks}

NextOptimize == \E types \in BlockTypeLists : OptimizeEditorJsContent(types)

SpecOptimize == Init /\ [][NextOptimize]_vars

\* Every backend request settles (the client has a timeout) and every timer
\* of delay() fires.
JobProgress ==
  \/ JobRequestSucceeds
  \/ \E kind \in JobErrorKinds : JobRequestFails(kind)
  \/ JobRetryRequest
  \/ JobRetryBatch

SpecJobLive == Init /\ [][NextJob]_vars /\ WF_vars(JobProgress)

NextManager ==
  \/ \E l \in 1..Len(JobTextLists), configured \in 0..maxRetries :
       RequestTranslation(l, configured)
  \/ JobRequestSucceeds
  \/ \E kind \in JobErrorKinds : JobRequestFails(kind)
  \/ JobRetryRequest
  \/ JobRetryBatch
  \/ AddJob
  \/ UpdateJobStatuses

\* The requests settle and the delay timers fire, the promise of
\* requestTranslation resolves, and the interval of the poller keeps firing.
NextBulk ==
  \/ \E contentItems \in BulkItemLists, targetLanguages \in BulkTargetLists :
       BulkProcessContent(contentItems, targetLanguages)
  \/ BulkPairResolves
  \/ \E message \in BulkErrorMessages : BulkPairThrows(message)

SpecBulk == Init /\ [][NextBulk]_vars

SpecManagerLive ==
  /\ Init /\ [][NextManager]_vars
  /\ WF_vars(JobProgress) /\ WF_vars(AddJob) /\ WF_vars(UpdateJobStatuses)

====
